---- MODULE Spec2Model ----
(***************************************************************************)
(* NEBULA EMERGENT: the grid reasoning engine.                             *)
(*                                                                         *)
(*   ARCGrid / PatternDetector / NEBULATransformationEngine                *)
(*       src/src/NEBULA_ARC_SOLVER_STANDALONE.cpp                          *)
(*   FARCGrid / FTransformationEngine / ANebulaARCSolver                   *)
(*       src/src/PatternDecoder.cpp                                        *)
(*   FValidityOracle            src/unnamed/part_000                       *)
(*   ANebulaEmergent::EvolveFrame  src/src/DiversityMaintenance.cpp        *)
(*                                                                         *)
(* Grids are records; the cell array data[y][x] of the source is a         *)
(* function from 0..height-1 to functions from 0..width-1.  Floating-point *)
(* confidences of the standalone detector are kept in hundredths.          *)
(***************************************************************************)
EXTENDS Integers, Sequences, FiniteSets, TLC

VARIABLES
    grid,            \* the ARCGrid the caller holds: accessed, analysed or solved for
    fgrid,           \* the FARCGrid object under test (Unreal solver)
    call,            \* the last call made: its name and arguments
    ret,             \* the value the last call returned
    before,          \* the receiver as it was when the last cell access was made
    trainInputs,     \* main: trainInputs
    trainOutputs,    \* main: trainOutputs
    printedRule,     \* the rule solveTransformation printed as dominant
    task,            \* ANebulaARCSolver::CurrentTask
    foundRules,      \* the rule array last discovered or extracted
    candidates,      \* the rules handed to ValidateRulesAcrossExamples by the last DiscoverRules
    clusters,        \* NebulaCore->GetActiveClusters()
    run,             \* a solver executing SolveTask: its members and the locals of the call
    twin,            \* a second solver executing SolveTask on a task with other test grids
    nebulae,         \* the ANebulaEmergent instances alive: the neuron array of each
    statics,         \* the function-local statics of ANebulaEmergent::EvolveFrame
    galaxy           \* a NEBULAEmergentGalaxy and the position of the frame it is executing

gridVars == <<grid, fgrid, before>>
solverVars == <<trainInputs, trainOutputs, printedRule>>
runVars == <<run, twin>>
simVars == <<nebulae, statics, galaxy>>
engineVars == <<task, foundRules, candidates, clusters, runVars, simVars>>
vars == <<grid, fgrid, call, ret, before, trainInputs, trainOutputs, printedRule,
          task, foundRules, candidates, clusters, run, twin, nebulae, statics, galaxy>>

\* ------------------------------------------------------------------------
\* Bounds of the model
\* ------------------------------------------------------------------------
MaxDim == 2      \* grids of the cell-access specification are at most MaxDim x MaxDim
MaxColor == 2    \* colours written by the environment are 0..MaxColor
MaxPaint == 1    \* cells the environment overwrites before it calls the pattern detector
MaxTrain == 2    \* training pairs handed to solveTransformation
MaxCalls == 2    \* calls made on one grid object in the cell-access specification
MaxClusters == 3 \* active clusters the core reports

Colors == 0..MaxColor

Min(a, b) == IF a < b THEN a ELSE b
Max(a, b) == IF a > b THEN a ELSE b
Abs(a) == IF a < 0 THEN -a ELSE a

\* ------------------------------------------------------------------------
\* ARCGrid (standalone solver)
\* ------------------------------------------------------------------------
\* ARCGrid(w, h): data.resize(h, vector<int>(w, 0))
ARCGrid(w, h) ==
    [width |-> w, height |-> h,
     data |-> [y \in 0..(h - 1) |-> [x \in 0..(w - 1) |-> 0]]]

getCell(g, x, y) ==
    IF x >= 0 /\ x < g.width /\ y >= 0 /\ y < g.height
    THEN g.data[y][x]
    ELSE -1

\* a setCell that clamps the coordinate into the grid instead of ignoring it
setCell_Clamped(g, x, y, value) ==
    IF g.width > 0 /\ g.height > 0
    THEN LET cx == Max(0, Min(x, g.width - 1))
             cy == Max(0, Min(y, g.height - 1))
         IN  [g EXCEPT !.data[cy][cx] = value]
    ELSE g

setCell(g, x, y, value) ==
    IF x >= 0 /\ x < g.width /\ y >= 0 /\ y < g.height
    THEN [g EXCEPT !.data[y][x] = value]
    ELSE g

\* a copy that keeps the size and loses the cells
copy_Blank(g) == ARCGrid(g.width, g.height)

\* ARCGrid::copy
copy(g) == [width |-> g.width, height |-> g.height, data |-> g.data]

\* ------------------------------------------------------------------------
\* FARCGrid (Unreal solver)
\* ------------------------------------------------------------------------
\* FARCGrid(W, H): Data.SetNum(H); Data[i].SetNum(W) (SetNum zero-fills int32)
FARCGrid(W, H) ==
    [Width |-> W, Height |-> H,
     Data |-> [Y \in 0..(H - 1) |-> [X \in 0..(W - 1) |-> 0]]]

GetCell(G, X, Y) ==
    IF X >= 0 /\ X < G.Width /\ Y >= 0 /\ Y < G.Height
    THEN G.Data[Y][X]
    ELSE -1

SetCell(G, X, Y, Value) ==
    IF X >= 0 /\ X < G.Width /\ Y >= 0 /\ Y < G.Height
    THEN [G EXCEPT !.Data[Y][X] = Value]
    ELSE G

\* ------------------------------------------------------------------------
\* Sequence helpers
\* ------------------------------------------------------------------------
\* the values of a set of <<key, value>> pairs with distinct integer keys, by rising key
OrderByKey(S) ==
    [k \in 1..Cardinality(S) |->
        (CHOOSE e \in S : Cardinality({ f \in S : f[1] <= e[1] }) = k)[2]]

\* the concatenation of the sequences ss[lo..hi]
RECURSIVE FlattenRange(_, _, _)
FlattenRange(ss, lo, hi) ==
    IF lo > hi THEN <<>>
    ELSE IF lo = hi THEN ss[lo]
    ELSE FlattenRange(ss, lo, (lo + hi) \div 2) \o FlattenRange(ss, ((lo + hi) \div 2) + 1, hi)

\* the concatenation of a sequence of sequences
Flatten(ss) == FlattenRange(ss, 1, Len(ss))

\* operator< of std::vector<int>: lexicographic order
RECURSIVE LexLess(_, _)
LexLess(a, b) ==
    IF b = <<>> THEN FALSE
    ELSE IF a = <<>> THEN TRUE
    ELSE IF Head(a) < Head(b) THEN TRUE
    ELSE IF Head(b) < Head(a) THEN FALSE
    ELSE LexLess(Tail(a), Tail(b))

\* the keys of a std::map keyed by vectors, in iteration order
LexSorted(S) ==
    [k \in 1..Cardinality(S) |->
        CHOOSE a \in S : Cardinality({ b \in S : b = a \/ LexLess(b, a) }) = k]

\* std::to_string of a non-negative int
Digits == <<"0", "1", "2", "3", "4", "5", "6", "7", "8", "9">>
RECURSIVE to_string(_)
to_string(n) ==
    IF n < 10 THEN Digits[n + 1] ELSE to_string(n \div 10) \o Digits[(n % 10) + 1]

\* ------------------------------------------------------------------------
\* PatternDetector (standalone solver); confidences in hundredths
\* ------------------------------------------------------------------------
\* the cells of a grid in the order of the loops `for y ... for x ...`
RowMajor(w, h) == [k \in 1..(w * h) |-> <<(k - 1) % w, (k - 1) \div w>>]

\* detectRectangles, the body of the loop over colours
RectanglesOfColor(g, color) ==
    LET colorCells == SelectSeq(RowMajor(g.width, g.height),
                                LAMBDA p : getCell(g, p[1], p[2]) = color)
        n == Len(colorCells)
        corners(i, j) == << <<colorCells[i][1], colorCells[i][2]>>,
                            <<colorCells[i][1], colorCells[j][2]>>,
                            <<colorCells[j][1], colorCells[i][2]>>,
                            <<colorCells[j][1], colorCells[j][2]>> >>
        isRectangle(i, j) ==
            /\ colorCells[i][1] # colorCells[j][1]
            /\ colorCells[i][2] # colorCells[j][2]
            /\ \A c \in 1..4 : getCell(g, corners(i, j)[c][1], corners(i, j)[c][2]) = color
    IN  IF n >= 4
        THEN OrderByKey({ <<i * (n + 1) + j,
                            [type |-> "rectangle", positions |-> corners(i, j),
                             color |-> color, confidence |-> 80]>> :
                          <<i, j>> \in { q \in (1..n) \X (1..n) :
                                           q[1] < q[2] /\ isRectangle(q[1], q[2]) } })
        ELSE <<>>

detectRectangles(g) == Flatten([color \in 1..9 |-> RectanglesOfColor(g, color)])

\* the scan of detectLines reporting runs of two cells and more
RECURSIVE ScanLine_FromTwo(_, _, _, _, _, _)
ScanLine_FromTwo(g, horizontal, fixed, i, currentColor, lineStart) ==
    LET len == IF horizontal THEN g.width ELSE g.height
        cellColor == IF i < len
                     THEN (IF horizontal THEN getCell(g, i, fixed) ELSE getCell(g, fixed, i))
                     ELSE -1
        line == [type |-> IF horizontal THEN "horizontal_line" ELSE "vertical_line",
                 positions |-> [k \in 1..(i - lineStart) |->
                                  IF horizontal THEN <<lineStart + k - 1, fixed>>
                                                ELSE <<fixed, lineStart + k - 1>>],
                 color |-> currentColor, confidence |-> 70]
        found == IF cellColor # currentColor /\ currentColor > 0 /\ i - lineStart >= 2
                 THEN <<line>> ELSE <<>>
    IN  IF i > len THEN <<>>
        ELSE IF cellColor # currentColor
             THEN found \o ScanLine_FromTwo(g, horizontal, fixed, i + 1, cellColor, i)
             ELSE ScanLine_FromTwo(g, horizontal, fixed, i + 1, currentColor, lineStart)

\* detectLines: the scan of one row (horizontal = TRUE, fixed = y) or one column
\* (horizontal = FALSE, fixed = x) from position i on, with the run state of the loop
RECURSIVE ScanLine(_, _, _, _, _, _)
ScanLine(g, horizontal, fixed, i, currentColor, lineStart) ==
    LET len == IF horizontal THEN g.width ELSE g.height
        cellColor == IF i < len
                     THEN (IF horizontal THEN getCell(g, i, fixed) ELSE getCell(g, fixed, i))
                     ELSE -1
        line == [type |-> IF horizontal THEN "horizontal_line" ELSE "vertical_line",
                 positions |-> [k \in 1..(i - lineStart) |->
                                  IF horizontal THEN <<lineStart + k - 1, fixed>>
                                                ELSE <<fixed, lineStart + k - 1>>],
                 color |-> currentColor, confidence |-> 70]
        found == IF cellColor # currentColor /\ currentColor > 0 /\ i - lineStart >= 3
                 THEN <<line>> ELSE <<>>
    IN  IF i > len THEN <<>>
        ELSE IF cellColor # currentColor
             THEN found \o ScanLine(g, horizontal, fixed, i + 1, cellColor, i)
             ELSE ScanLine(g, horizontal, fixed, i + 1, currentColor, lineStart)

detectLines(g) ==
    Flatten([y \in 1..g.height |-> ScanLine(g, TRUE, y - 1, 0, -1, -1)])
    \o Flatten([x \in 1..g.width |-> ScanLine(g, FALSE, x - 1, 0, -1, -1)])

\* a detectSymmetries that compares the row with the row below instead of the mirror
horizontalSymmetry_Shifted(g) ==
    \A y \in 0..(g.height - 1) : \A x \in 0..((g.width \div 2) - 1) :
        getCell(g, x, y) = getCell(g, x + 1, y)

\* detectSymmetries, the first pair of loops
horizontalSymmetry(g) ==
    \A y \in 0..(g.height - 1) : \A x \in 0..((g.width \div 2) - 1) :
        getCell(g, x, y) = getCell(g, g.width - 1 - x, y)

\* detectSymmetries, the second pair of loops
verticalSymmetry(g) ==
    \A y \in 0..((g.height \div 2) - 1) : \A x \in 0..(g.width - 1) :
        getCell(g, x, y) = getCell(g, x, g.height - 1 - y)

detectSymmetries(g) ==
    (IF horizontalSymmetry(g)
     THEN << [type |-> "horizontal_symmetry", positions |-> <<>>, color |-> 0,
              confidence |-> 90] >>
     ELSE <<>>)
    \o
    (IF verticalSymmetry(g)
     THEN << [type |-> "vertical_symmetry", positions |-> <<>>, color |-> 0,
              confidence |-> 90] >>
     ELSE <<>>)

\* the block of size blockSize at offset (x,y), rows first: the key of blockMap
Block(g, blockSize, x, y) ==
    [k \in 1..(blockSize * blockSize) |->
        getCell(g, x + ((k - 1) % blockSize), y + ((k - 1) \div blockSize))]

\* the offsets at which a block of size blockSize is read, in loop order
BlockOffsets(g, blockSize) ==
    LET nx == g.width - blockSize + 1
        ny == g.height - blockSize + 1
    IN  [k \in 1..(nx * ny) |-> <<(k - 1) % nx, (k - 1) \div nx>>]

\* the cells of the blocks at the given offsets: rep.positions
BlockCells(offsets, blockSize) ==
    Flatten([o \in 1..Len(offsets) |->
               [k \in 1..(blockSize * blockSize) |->
                  <<offsets[o][1] + ((k - 1) % blockSize),
                    offsets[o][2] + ((k - 1) \div blockSize)>>]])

\* a detectRepetitions that reports a block from its first occurrence on
RepetitionsOfSize_FromOne(g, blockSize) ==
    LET offsets == BlockOffsets(g, blockSize)
        keys == LexSorted({ Block(g, blockSize, offsets[o][1], offsets[o][2]) :
                            o \in 1..Len(offsets) })
        group(key) == SelectSeq(offsets, LAMBDA p : Block(g, blockSize, p[1], p[2]) = key)
        rep(key) ==
            [type |-> "repetition_" \o to_string(blockSize) \o "x" \o to_string(blockSize),
             positions |-> BlockCells(group(key), blockSize), color |-> 0,
             confidence |-> 60 + 10 * Len(group(key))]
    IN  [k \in 1..Len(keys) |-> rep(keys[k])]

\* detectRepetitions, the body of the loop over block sizes
RepetitionsOfSize(g, blockSize) ==
    LET offsets == BlockOffsets(g, blockSize)
        keys == LexSorted({ Block(g, blockSize, offsets[o][1], offsets[o][2]) :
                            o \in 1..Len(offsets) })
        group(key) == SelectSeq(offsets, LAMBDA p : Block(g, blockSize, p[1], p[2]) = key)
        rep(key) ==
            [type |-> "repetition_" \o to_string(blockSize) \o "x" \o to_string(blockSize),
             positions |-> BlockCells(group(key), blockSize), color |-> 0,
             confidence |-> 60 + 10 * Len(group(key))]
        repeated == SelectSeq(keys, LAMBDA key : Len(group(key)) >= 2)
    IN  [k \in 1..Len(repeated) |-> rep(repeated[k])]

detectRepetitions(g) ==
    LET maxBlock == Min(g.width, g.height) \div 2
    IN  Flatten([b \in 1..(maxBlock - 1) |-> RepetitionsOfSize(g, b + 1)])

detectPatterns(g) ==
    detectRectangles(g) \o detectLines(g) \o detectSymmetries(g) \o detectRepetitions(g)

\* ------------------------------------------------------------------------
\* NEBULATransformationEngine (standalone solver)
\* ------------------------------------------------------------------------
\* the std::set<int> of the colours of a grid
ColorsOf(g) == { getCell(g, x, y) : x \in 0..(g.width - 1), y \in 0..(g.height - 1) }

\* the rules pushed to transformationRules for example pair i
VotesOfExample(inp, out) ==
    (IF inp.width # out.width \/ inp.height # out.height THEN <<"size_change">> ELSE <<>>)
    \o (IF ColorsOf(inp) # ColorsOf(out) THEN <<"color_change">> ELSE <<>>)
    \o (IF Len(detectPatterns(inp)) # Len(detectPatterns(out))
        THEN <<"pattern_change">> ELSE <<>>)

transformationRules(inputExamples, outputExamples) ==
    Flatten([i \in 1..Min(Len(inputExamples), Len(outputExamples)) |->
               VotesOfExample(inputExamples[i], outputExamples[i])])

\* ruleCount[rule]
ruleCount(rules, rule) == Cardinality({ i \in DOMAIN rules : rules[i] = rule })

\* the keys of std::map<std::string, int> ruleCount in iteration order
RuleNames == <<"color_change", "pattern_change", "size_change">>

\* a selection loop that lets a later rule with an equal count replace the earlier one
RECURSIVE SelectDominant_LastWins(_, _, _, _)
SelectDominant_LastWins(rules, k, dominantRule, maxCount) ==
    IF k > Len(RuleNames) THEN dominantRule
    ELSE IF ruleCount(rules, RuleNames[k]) > 0 /\ ruleCount(rules, RuleNames[k]) >= maxCount
         THEN SelectDominant_LastWins(rules, k + 1, RuleNames[k],
                                      ruleCount(rules, RuleNames[k]))
         ELSE SelectDominant_LastWins(rules, k + 1, dominantRule, maxCount)

\* the loop over ruleCount that selects dominantRule, from key k on
RECURSIVE SelectDominant(_, _, _, _)
SelectDominant(rules, k, dominantRule, maxCount) ==
    IF k > Len(RuleNames) THEN dominantRule
    ELSE IF ruleCount(rules, RuleNames[k]) > maxCount
         THEN SelectDominant(rules, k + 1, RuleNames[k], ruleCount(rules, RuleNames[k]))
         ELSE SelectDominant(rules, k + 1, dominantRule, maxCount)

\* applyTransformation, rule == "size_change"
ApplySizeChange(input, outputExamples) ==
    LET newWidth == outputExamples[1].width
        newHeight == outputExamples[1].height
    IN  [width |-> newWidth, height |-> newHeight,
         data |-> [y \in 0..(newHeight - 1) |-> [x \in 0..(newWidth - 1) |->
                     getCell(input, (x * input.width) \div newWidth,
                                    (y * input.height) \div newHeight)]]]

\* a colorMapping built backwards, from the output colour to the input colour
ColorMappingOf_Reversed(inp, out) ==
    LET cells == RowMajor(Min(inp.width, out.width), Min(inp.height, out.height))
        differs(k) == getCell(inp, cells[k][1], cells[k][2])
                        # getCell(out, cells[k][1], cells[k][2])
        from == { getCell(out, cells[k][1], cells[k][2]) : k \in { j \in DOMAIN cells : differs(j) } }
        last(c) == CHOOSE k \in DOMAIN cells :
                      /\ differs(k) /\ getCell(out, cells[k][1], cells[k][2]) = c
                      /\ \A j \in DOMAIN cells :
                           (differs(j) /\ getCell(out, cells[j][1], cells[j][2]) = c) => j <= k
    IN  [c \in from |-> getCell(inp, cells[last(c)][1], cells[last(c)][2])]

\* colorMapping as built from the first example pair: the last mismatch of a colour wins
ColorMappingOf(inp, out) ==
    LET cells == RowMajor(Min(inp.width, out.width), Min(inp.height, out.height))
        differs(k) == getCell(inp, cells[k][1], cells[k][2])
                        # getCell(out, cells[k][1], cells[k][2])
        from == { getCell(inp, cells[k][1], cells[k][2]) : k \in { j \in DOMAIN cells : differs(j) } }
        last(c) == CHOOSE k \in DOMAIN cells :
                      /\ differs(k) /\ getCell(inp, cells[k][1], cells[k][2]) = c
                      /\ \A j \in DOMAIN cells :
                           (differs(j) /\ getCell(inp, cells[j][1], cells[j][2]) = c) => j <= k
    IN  [c \in from |-> getCell(out, cells[last(c)][1], cells[last(c)][2])]

\* applyTransformation, rule == "color_change"
ApplyColorChange(input, inputExamples, outputExamples) ==
    LET colorMapping == IF inputExamples # <<>> /\ outputExamples # <<>>
                        THEN ColorMappingOf(inputExamples[1], outputExamples[1])
                        ELSE <<>>
    IN  [input EXCEPT !.data =
            [y \in 0..(input.height - 1) |-> [x \in 0..(input.width - 1) |->
                IF input.data[y][x] \in DOMAIN colorMapping
                THEN colorMapping[input.data[y][x]]
                ELSE input.data[y][x]]]]

\* the setCell calls <<x, y, value>> made for position pos of a pattern, in order
WritesAt(pattern, pos, width, height) ==
    (IF pattern.type = "rectangle" /\ pattern.confidence > 70
     THEN << <<pos[1], pos[2], pattern.color + 1>> >> ELSE <<>>)
    \o
    (IF pattern.type \in {"horizontal_line", "vertical_line"} /\ pattern.confidence > 60
     THEN IF pattern.type = "horizontal_line"
          THEN (IF pos[1] > 0 THEN << <<pos[1] - 1, pos[2], pattern.color>> >> ELSE <<>>)
               \o (IF pos[1] < width - 1
                   THEN << <<pos[1] + 1, pos[2], pattern.color>> >> ELSE <<>>)
          ELSE (IF pos[2] > 0 THEN << <<pos[1], pos[2] - 1, pattern.color>> >> ELSE <<>>)
               \o (IF pos[2] < height - 1
                   THEN << <<pos[1], pos[2] + 1, pattern.color>> >> ELSE <<>>)
     ELSE <<>>)

\* the setCell calls of the loop over the patterns and their positions, in order
PatternWrites(patterns, width, height) ==
    Flatten([i \in 1..Len(patterns) |->
               Flatten([k \in 1..Len(patterns[i].positions) |->
                          WritesAt(patterns[i], patterns[i].positions[k], width, height)])])

\* a grid after a sequence of setCell calls: the last call on a cell decides it
AfterWrites(g, writes) ==
    LET hits(x, y) == { k \in DOMAIN writes : writes[k][1] = x /\ writes[k][2] = y }
        last(x, y) == CHOOSE k \in hits(x, y) : \A j \in hits(x, y) : j <= k
    IN  [g EXCEPT !.data =
            [y \in 0..(g.height - 1) |-> [x \in 0..(g.width - 1) |->
                IF hits(x, y) = {} THEN g.data[y][x] ELSE writes[last(x, y)][3]]]]

\* applyTransformation, rule == "pattern_change"
ApplyPatternChange(input) ==
    AfterWrites(copy(input), PatternWrites(detectPatterns(input), input.width, input.height))

applyTransformation(input, rule, inputExamples, outputExamples) ==
    IF rule = "copy" THEN copy(input)
    ELSE IF rule = "size_change" /\ inputExamples # <<>> /\ outputExamples # <<>>
         THEN ApplySizeChange(input, outputExamples)
    ELSE IF rule = "color_change"
         THEN ApplyColorChange(copy(input), inputExamples, outputExamples)
    ELSE IF rule = "pattern_change" THEN ApplyPatternChange(input)
    ELSE copy(input)

\* the rule solveTransformation prints as dominant
DominantRuleOf(inputExamples, outputExamples) ==
    SelectDominant(transformationRules(inputExamples, outputExamples), 1, "copy", 0)

solveTransformation(inputExamples, outputExamples, input) ==
    applyTransformation(input, DominantRuleOf(inputExamples, outputExamples),
                        inputExamples, outputExamples)

\* ------------------------------------------------------------------------
\* FTransformationEngine (Unreal solver)
\*
\* A float is kept as an exact fraction <<numerator, denominator>>; every
\* float the engine compares against a literal is a quotient of small ints.
\* ------------------------------------------------------------------------
Ratio(num, den) == <<num, den>>
RatioLess(a, b) == a[1] * b[2] < b[1] * a[2]
RatioEq(a, b) == a[1] * b[2] = b[1] * a[2]

\* FMath::RoundToInt(num / den) = FloorToInt(F + 0.5f), den > 0
RoundToInt(num, den) == (2 * num + den) \div (2 * den)

\* a default-constructed TFunction (unbound)
NoTransform ==
    [fn |-> "none", bHorizontal |-> FALSE, bVertical |-> FALSE, bDiagonal |-> FALSE,
     Pattern |-> FARCGrid(0, 0), Region |-> [Min |-> <<0, 0>>, Max |-> <<0, 0>>]]

\* a default-constructed FTransformationRule with its Type and Confidence set:
\* identity SpatialTransform, empty ColorMap, unbound CustomTransform
FTransformationRule(type, confidence) ==
    [Type |-> type,
     Translation |-> [X |-> 0, Y |-> 0, Den |-> 1],
     EulerX |-> 0,
     ColorMap |-> <<>>,
     CustomTransform |-> NoTransform,
     Confidence |-> confidence]

FCells(G) == { <<X, Y>> : X \in 0..(G.Width - 1), Y \in 0..(G.Height - 1) }

\* a grid of the given size whose cells are given by a function of <<X, Y>>
FGridOf(W, H, f) ==
    [Width |-> W, Height |-> H,
     Data |-> [Y \in 0..(H - 1) |-> [X \in 0..(W - 1) |-> f[<<X, Y>>]]]]

\* the grid whose rows are the given sequences of colours
FGrid(rows) ==
    [Width |-> IF rows = <<>> THEN 0 ELSE Len(rows[1]),
     Height |-> Len(rows),
     Data |-> [Y \in 0..(Len(rows) - 1) |->
                 [X \in 0..(Len(rows[1]) - 1) |-> rows[Y + 1][X + 1]]]]

ApplyTranslation(Rule, Input) ==
    LET DX == RoundToInt(Rule.Translation.X, Rule.Translation.Den)
        DY == RoundToInt(Rule.Translation.Y, Rule.Translation.Den)
    IN  FGridOf(Input.Width, Input.Height,
            [c \in FCells(Input) |->
                IF c[1] - DX >= 0 /\ c[1] - DX < Input.Width
                   /\ c[2] - DY >= 0 /\ c[2] - DY < Input.Height
                THEN GetCell(Input, c[1] - DX, c[2] - DY)
                ELSE 0])

\* Output(Input.Height, Input.Width); Output(Height - 1 - Y, X) = Input(X, Y)
ApplyRotation(Input) ==
    FGridOf(Input.Height, Input.Width,
        [c \in { <<X, Y>> : X \in 0..(Input.Height - 1), Y \in 0..(Input.Width - 1) } |->
            GetCell(Input, c[2], Input.Height - 1 - c[1])])

ApplyReflection(Rule, Input) ==
    LET bHorizontal == Rule.EulerX > 0
    IN  FGridOf(Input.Width, Input.Height,
            [c \in FCells(Input) |->
                IF bHorizontal
                THEN GetCell(Input, Input.Width - 1 - c[1], c[2])
                ELSE GetCell(Input, c[1], Input.Height - 1 - c[2])])

ApplyColorMapping(Rule, Input) ==
    FGridOf(Input.Width, Input.Height,
        [c \in FCells(Input) |->
            LET OldColor == GetCell(Input, c[1], c[2])
            IN  IF OldColor \in DOMAIN Rule.ColorMap
                THEN Rule.ColorMap[OldColor]
                ELSE OldColor])

GridsMatch(A, B) ==
    /\ A.Width = B.Width
    /\ A.Height = B.Height
    /\ \A c \in FCells(A) : GetCell(A, c[1], c[2]) = GetCell(B, c[1], c[2])

\* the cells of `eligible` that a walk over 4-neighbours reaches from `reached`
RECURSIVE Reach(_, _)
Reach(reached, eligible) ==
    LET next == { c \in eligible \ reached :
                    \E d \in reached : Abs(c[1] - d[1]) + Abs(c[2] - d[2]) = 1 }
    IN  IF next = {} THEN reached ELSE Reach(reached \cup next, eligible)

\* position of a cell in the scan `for Y ... for X ...`
ScanIndex(G, c) == c[2] * G.Width + c[1]

FirstScanned(G, cells) ==
    CHOOSE c \in cells : \A d \in cells : ScanIndex(G, c) <= ScanIndex(G, d)

\* the cells FloodFillObject marks visited from a start cell: the 4-connected
\* region of the start cell's colour
FloodFillCells(G, start) ==
    Reach({start}, { c \in FCells(G) : GetCell(G, c[1], c[2]) = GetCell(G, start[1], start[2]) })

\* FIntRect Bounds, grown over the visited cells
FloodFillObject(G, start) ==
    LET cells == FloodFillCells(G, start)
    IN  [Min |-> << CHOOSE x \in { c[1] : c \in cells } : \A c \in cells : x <= c[1],
                    CHOOSE y \in { c[2] : c \in cells } : \A c \in cells : y <= c[2] >>,
         Max |-> << CHOOSE x \in { c[1] : c \in cells } : \A c \in cells : x >= c[1],
                    CHOOSE y \in { c[2] : c \in cells } : \A c \in cells : y >= c[2] >>]

\* one bounding box per same-coloured non-background region, in scan order of
\* the region's first cell
FindObjects(G) ==
    LET regions == { FloodFillCells(G, c) : c \in { d \in FCells(G) : GetCell(G, d[1], d[2]) # 0 } }
    IN  OrderByKey({ << ScanIndex(G, FirstScanned(G, r)), FloodFillObject(G, FirstScanned(G, r)) >> :
                        r \in regions })

\* the cells DFS collects from a start cell: the 4-connected non-background region
DFS(G, start) ==
    Reach({start}, { c \in FCells(G) : GetCell(G, c[1], c[2]) # 0 })

\* the components as sets of points, in scan order of their first cell
FindConnectedComponents(G) ==
    LET regions == { DFS(G, c) : c \in { d \in FCells(G) : GetCell(G, d[1], d[2]) # 0 } }
    IN  OrderByKey({ << ScanIndex(G, FirstScanned(G, r)), r >> : r \in regions })

CheckHorizontalSymmetry(G) ==
    \A Y \in 0..((G.Height \div 2) - 1) : \A X \in 0..(G.Width - 1) :
        GetCell(G, X, Y) = GetCell(G, X, G.Height - 1 - Y)

CheckVerticalSymmetry(G) ==
    \A Y \in 0..(G.Height - 1) : \A X \in 0..((G.Width \div 2) - 1) :
        GetCell(G, X, Y) = GetCell(G, G.Width - 1 - X, Y)

CheckDiagonalSymmetry(G) ==
    /\ G.Width = G.Height
    /\ \A Y \in 0..(G.Height - 1) : \A X \in 0..(Y - 1) :
        GetCell(G, X, Y) = GetCell(G, Y, X)

\* both passes read Input and write Output; bDiagonal is not used
ApplySymmetry(Input, bHorizontal, bVertical, bDiagonal) ==
    FGridOf(Input.Width, Input.Height,
        [c \in FCells(Input) |->
            IF bVertical /\ Input.Width - 1 - c[1] < Input.Width \div 2
            THEN GetCell(Input, Input.Width - 1 - c[1], c[2])
            ELSE IF bHorizontal /\ Input.Height - 1 - c[2] < Input.Height \div 2
            THEN GetCell(Input, c[1], Input.Height - 1 - c[2])
            ELSE GetCell(Input, c[1], c[2])])

\* sum of the coordinates of a set of points
RECURSIVE SumX(_)
SumX(points) ==
    IF points = {} THEN 0
    ELSE LET p == CHOOSE q \in points : TRUE IN p[1] + SumX(points \ {p})

RECURSIVE SumY(_)
SumY(points) ==
    IF points = {} THEN 0
    ELSE LET p == CHOOSE q \in points : TRUE IN p[2] + SumY(points \ {p})

\* integer division of the coordinate sums
GetComponentCenter(Component) ==
    << SumX(Component) \div Cardinality(Component),
       SumY(Component) \div Cardinality(Component) >>

\* the cells Bresenham's loop writes from <<X0, Y0>> until it reaches <<X1, Y1>>;
\* DX, DY, SX, SY are fixed before the loop
RECURSIVE LineCells(_, _, _, _, _, _, _, _, _)
LineCells(X0, Y0, X1, Y1, DX, DY, SX, SY, Err) ==
    IF X0 = X1 /\ Y0 = Y1 THEN { <<X0, Y0>> }
    ELSE LET E2 == 2 * Err
             stepX == E2 > -DY
             stepY == E2 < DX
         IN  { <<X0, Y0>> } \cup
             LineCells(IF stepX THEN X0 + SX ELSE X0,
                       IF stepY THEN Y0 + SY ELSE Y0,
                       X1, Y1, DX, DY, SX, SY,
                       Err - (IF stepX THEN DY ELSE 0) + (IF stepY THEN DX ELSE 0))

\* the cells DrawLine sets to Color
DrawLine(Start, End) ==
    LET DX == Abs(End[1] - Start[1])
        DY == Abs(End[2] - Start[2])
    IN  LineCells(Start[1], Start[2], End[1], End[2], DX, DY,
                  IF Start[1] < End[1] THEN 1 ELSE -1,
                  IF Start[2] < End[2] THEN 1 ELSE -1,
                  DX - DY)

\* a line of colour 1 between the centres of every two components
ConnectComponents(Input) ==
    LET Components == FindConnectedComponents(Input)
        lines == UNION { IF pr[1] < pr[2]
                         THEN DrawLine(GetComponentCenter(Components[pr[1]]),
                                       GetComponentCenter(Components[pr[2]]))
                         ELSE {} :
                         pr \in (1..Len(Components)) \X (1..Len(Components)) }
    IN  FGridOf(Input.Width, Input.Height,
            [c \in FCells(Input) |->
                IF c \in lines THEN 1 ELSE GetCell(Input, c[1], c[2])])

\* FillWithPattern is called by the lambda of TryDiscoverPatternFill; its body
\* is not part of the sources at hand.  Taken as: the cells of Pattern written
\* into a copy of Input from the corner Region.Min on.
FillWithPattern(Input, Pattern, Region) ==
    FGridOf(Input.Width, Input.Height,
        [c \in FCells(Input) |->
            IF GetCell(Pattern, c[1] - Region.Min[1], c[2] - Region.Min[2]) >= 0
            THEN GetCell(Pattern, c[1] - Region.Min[1], c[2] - Region.Min[2])
            ELSE GetCell(Input, c[1], c[2])])

\* TFunction call: the bound lambda, applied
CustomTransform(T, Input) ==
    IF T.fn = "ApplySymmetry"
    THEN ApplySymmetry(Input, T.bHorizontal, T.bVertical, T.bDiagonal)
    ELSE IF T.fn = "ConnectComponents"
    THEN ConnectComponents(Input)
    ELSE IF T.fn = "FillWithPattern"
    THEN FillWithPattern(Input, T.Pattern, T.Region)
    ELSE Input

\* FTransformationRule::Apply
Apply(Rule, Input) ==
    CASE Rule.Type = "Translation" -> ApplyTranslation(Rule, Input)
      [] Rule.Type = "Rotation" -> ApplyRotation(Input)
      [] Rule.Type = "Reflection" -> ApplyReflection(Rule, Input)
      [] Rule.Type = "ColorMapping" -> ApplyColorMapping(Rule, Input)
      [] OTHER -> IF Rule.CustomTransform.fn # "none"
                  THEN CustomTransform(Rule.CustomTransform, Input)
                  ELSE Input

\* an example pair of a task
FARCExample(Input, Output) == [Input |-> Input, Output |-> Output]

\* twice the centre of a rectangle: GetRectCenter is (Min + Max) / 2
GetRectCenter2(Rect) == << Rect.Min[1] + Rect.Max[1], Rect.Min[2] + Rect.Max[2] >>

RECURSIVE SumSeq(_, _)
SumSeq(f, n) == IF n = 0 THEN 0 ELSE f[n] + SumSeq(f, n - 1)

\* the rules TryDiscoverTranslation adds for one example (none or one);
\* AvgTranslation = (sx, sy) / (2 * Num), and Size() > 0.1 compares squares
TryDiscoverTranslation(Example) ==
    LET InputObjects == FindObjects(Example.Input)
        OutputObjects == FindObjects(Example.Output)
        Num == Len(InputObjects)
        sx == SumSeq([i \in 1..Num |-> GetRectCenter2(OutputObjects[i])[1]
                                        - GetRectCenter2(InputObjects[i])[1]], Num)
        sy == SumSeq([i \in 1..Num |-> GetRectCenter2(OutputObjects[i])[2]
                                        - GetRectCenter2(InputObjects[i])[2]], Num)
    IN  IF Num = Len(OutputObjects) /\ Num > 0
           /\ 100 * (sx * sx + sy * sy) > (2 * Num) * (2 * Num)
        THEN << [FTransformationRule("Translation", Ratio(8, 10))
                    EXCEPT !.Translation = [X |-> sx, Y |-> sy, Den |-> 2 * Num]] >>
        ELSE <<>>

\* the overlap of input and output in scan order
OverlapCells(Example) ==
    RowMajor(Min(Example.Input.Width, Example.Output.Width),
             Min(Example.Input.Height, Example.Output.Height))

\* a ColorMap built the other way round: the output colour of a differing cell
\* maps to its input colour
DiscoveredColorMap_Inverse(Example) ==
    LET differing == { c \in FCells(Example.Input) :
                         /\ GetCell(Example.Output, c[1], c[2]) >= 0
                         /\ GetCell(Example.Input, c[1], c[2]) # GetCell(Example.Output, c[1], c[2]) }
    IN  [o \in { GetCell(Example.Output, c[1], c[2]) : c \in differing } |->
            GetCell(Example.Input,
                    (CHOOSE c \in differing : GetCell(Example.Output, c[1], c[2]) = o)[1],
                    (CHOOSE c \in differing : GetCell(Example.Output, c[1], c[2]) = o)[2])]

\* the ColorMap TryDiscoverColorMapping builds: an input colour maps to the
\* output colour of the first cell in scan order where the two differ
DiscoveredColorMap(Example) ==
    LET cells == OverlapCells(Example)
        differs(k) ==
            LET InputColor == GetCell(Example.Input, cells[k][1], cells[k][2])
                OutputColor == GetCell(Example.Output, cells[k][1], cells[k][2])
            IN  InputColor # OutputColor /\ InputColor >= 0 /\ OutputColor >= 0
        keys == { GetCell(Example.Input, cells[k][1], cells[k][2]) :
                    k \in { j \in 1..Len(cells) : differs(j) } }
        first(c) == CHOOSE k \in 1..Len(cells) :
                        /\ differs(k)
                        /\ GetCell(Example.Input, cells[k][1], cells[k][2]) = c
                        /\ \A j \in 1..(k - 1) :
                              ~(differs(j) /\ GetCell(Example.Input, cells[j][1], cells[j][2]) = c)
    IN  [c \in keys |-> GetCell(Example.Output, cells[first(c)][1], cells[first(c)][2])]

TryDiscoverColorMapping(Example) ==
    LET ColorMap == DiscoveredColorMap(Example)
    IN  IF DOMAIN ColorMap # {}
        THEN << [FTransformationRule("ColorMapping", Ratio(7, 10))
                    EXCEPT !.ColorMap = ColorMap] >>
        ELSE <<>>

TryDiscoverSymmetry(Example) ==
    LET bHorizontalSymmetry == CheckHorizontalSymmetry(Example.Output)
        bVerticalSymmetry == CheckVerticalSymmetry(Example.Output)
        bDiagonalSymmetry == CheckDiagonalSymmetry(Example.Output)
    IN  IF bHorizontalSymmetry \/ bVerticalSymmetry \/ bDiagonalSymmetry
        THEN << [FTransformationRule("Symmetry", Ratio(9, 10))
                    EXCEPT !.CustomTransform =
                        [NoTransform EXCEPT !.fn = "ApplySymmetry",
                                            !.bHorizontal = bHorizontalSymmetry,
                                            !.bVertical = bVerticalSymmetry,
                                            !.bDiagonal = bDiagonalSymmetry]] >>
        ELSE <<>>

TryDiscoverConnectivity(Example) ==
    IF Len(FindConnectedComponents(Example.Output)) < Len(FindConnectedComponents(Example.Input))
    THEN << [FTransformationRule("Connectivity", Ratio(75, 100))
                EXCEPT !.CustomTransform = [NoTransform EXCEPT !.fn = "ConnectComponents"]] >>
    ELSE <<>>

\* What TryDiscoverRotation, TryDiscoverReflection and TryDiscoverPatternFill
\* add for one example.  Their bodies (and the helpers of the third) are not
\* part of the sources at hand, so their result is an input of DiscoverRules.
NothingUnseen == [Rotation |-> <<>>, Reflection |-> <<>>, PatternFill |-> <<>>]

\* The results considered for one example: nothing; a Rotation rule; a
\* Reflection rule about either axis; and, where the first cell of the input
\* is background and the output's is not, a PatternFill rule (confidence
\* 0.85, line 767) that writes that cell.
TryDiscoverUnseen(Example) ==
    { NothingUnseen,
      [NothingUnseen EXCEPT !.Rotation = << FTransformationRule("Rotation", Ratio(8, 10)) >>],
      [NothingUnseen EXCEPT !.Reflection = << FTransformationRule("Reflection", Ratio(8, 10)) >>],
      [NothingUnseen EXCEPT !.Reflection =
          << [FTransformationRule("Reflection", Ratio(8, 10)) EXCEPT !.EulerX = 1] >>] }
    \cup
    (IF GetCell(Example.Input, 0, 0) = 0 /\ GetCell(Example.Output, 0, 0) > 0
     THEN { [NothingUnseen EXCEPT !.PatternFill =
              << [FTransformationRule("PatternFill", Ratio(85, 100))
                    EXCEPT !.CustomTransform =
                        [NoTransform EXCEPT
                            !.fn = "FillWithPattern",
                            !.Pattern = FGrid(<< << GetCell(Example.Output, 0, 0) >> >>)]] >>] }
     ELSE {})

\* the results of the three over a list of examples: at most one of them
\* finds a rule, for at most one example
UnseenDiscoveries(Examples) ==
    { [i \in 1..Len(Examples) |-> NothingUnseen] }
    \cup { [i \in 1..Len(Examples) |-> IF i = k[1] THEN k[2] ELSE NothingUnseen] :
             k \in UNION { { <<j, u>> : u \in TryDiscoverUnseen(Examples[j]) } :
                             j \in 1..Len(Examples) } }

\* the rules the seven discoverers add for one example, in call order
RulesOfExample(Example, unseen) ==
    TryDiscoverTranslation(Example) \o unseen.Rotation \o unseen.Reflection
    \o TryDiscoverColorMapping(Example) \o unseen.PatternFill
    \o TryDiscoverSymmetry(Example) \o TryDiscoverConnectivity(Example)

\* the candidate list DiscoverRules hands to ValidateRulesAcrossExamples
CandidateRules(Examples, unseen) ==
    Flatten([i \in 1..Len(Examples) |-> RulesOfExample(Examples[i], unseen[i])])

\* number of examples whose output the rule reproduces exactly
SuccessCount(Rule, Examples) ==
    Cardinality({ i \in 1..Len(Examples) :
                    GridsMatch(Apply(Rule, Examples[i].Input), Examples[i].Output) })

\* the predicate of RemoveAll, read with `<=` in place of `<`
LowConfidence_Inclusive(Rule) == ~RatioLess(Ratio(1, 2), Rule.Confidence)

\* the predicate of RemoveAll: Rule.Confidence < 0.5f
LowConfidence(Rule) == RatioLess(Rule.Confidence, Ratio(1, 2))

\* the sequence without the first occurrence of an element
RemoveFirst(s, e) ==
    LET k == CHOOSE i \in 1..Len(s) : s[i] = e /\ \A j \in 1..(i - 1) : s[j] # e
    IN  [i \in 1..(Len(s) - 1) |-> IF i < k THEN s[i] ELSE s[i + 1]]

\* TArray::Sort is not stable: every arrangement of the array in which no rule
\* precedes a rule of strictly higher confidence is a possible result
RECURSIVE SortByConfidence(_)
SortByConfidence(Rules) ==
    IF Rules = <<>> THEN { <<>> }
    ELSE LET tops == { Rules[i] : i \in { j \in 1..Len(Rules) :
                          \A k \in 1..Len(Rules) :
                              ~RatioLess(Rules[j].Confidence, Rules[k].Confidence) } }
         IN  UNION { { <<r>> \o rest : rest \in SortByConfidence(RemoveFirst(Rules, r)) } :
                     r \in tops }

\* the arrays ValidateRulesAcrossExamples may leave in Rules
ValidateRulesAcrossExamples(Rules, Examples) ==
    LET scored == [i \in 1..Len(Rules) |->
                      [Rules[i] EXCEPT !.Confidence =
                          Ratio(SuccessCount(Rules[i], Examples), Len(Examples))]]
    IN  SortByConfidence(SelectSeq(scored, LAMBDA Rule : ~LowConfidence(Rule)))

\* the arrays DiscoverRules may return
DiscoverRules(Examples, unseen) ==
    ValidateRulesAcrossExamples(CandidateRules(Examples, unseen), Examples)

\* ------------------------------------------------------------------------
\* FARCNeuralEncoder; wavelengths in nanometres
\* ------------------------------------------------------------------------
\* ColorWavelengthMap[c] is ColorWavelengthMap[c + 1] here
ColorWavelengthMap == <<700, 450, 650, 550, 590, 480, 600, 610, 460, 520>>

\* the first colour, in the order of the map, at the least distance
WavelengthToColor(Wavelength) ==
    CHOOSE BestColor \in 0..9 :
        /\ \A c \in 0..9 : Abs(Wavelength - ColorWavelengthMap[BestColor + 1])
                            <= Abs(Wavelength - ColorWavelengthMap[c + 1])
        /\ \A c \in 0..(BestColor - 1) :
              Abs(Wavelength - ColorWavelengthMap[BestColor + 1])
                < Abs(Wavelength - ColorWavelengthMap[c + 1])

\* ------------------------------------------------------------------------
\* ANebulaARCSolver
\* ------------------------------------------------------------------------
EvolutionCycles == 100

\* A cluster as EvolveTransformationRules reads it: Velocity in hundredths,
\* AngularVelocityZ in thousandths, SpectralMap a sequence of
\* <<from wavelength, to wavelength>> in iteration order, Coherence a fraction.
FNeuronCluster(Velocity, AngularVelocityZ, SpectralMap, Coherence) ==
    [Velocity |-> Velocity, AngularVelocityZ |-> AngularVelocityZ,
     SpectralMap |-> SpectralMap, Coherence |-> Coherence]

\* Rule.ColorMap after the loop of ColorMap.Add: a later pair replaces an
\* earlier one with the same source colour
SpectralColorMap(SpectralMap) ==
    LET from(k) == WavelengthToColor(SpectralMap[k][1])
        last(c) == CHOOSE k \in 1..Len(SpectralMap) :
                      from(k) = c /\ \A j \in (k + 1)..Len(SpectralMap) : from(j) # c
    IN  [c \in { from(k) : k \in 1..Len(SpectralMap) } |->
            WavelengthToColor(SpectralMap[last(c)][2])]

\* the rules EvolveTransformationRules adds for one cluster
RulesOfCluster(Cluster) ==
    (IF Cluster.Velocity[1] * Cluster.Velocity[1]
          + Cluster.Velocity[2] * Cluster.Velocity[2] > 10 * 10
     THEN << [FTransformationRule("Translation", Cluster.Coherence)
                 EXCEPT !.Translation = [X |-> Cluster.Velocity[1],
                                         Y |-> Cluster.Velocity[2],
                                         Den |-> 10]] >>
     ELSE <<>>)
    \o (IF Abs(Cluster.AngularVelocityZ) > 10
        THEN << FTransformationRule("Rotation", Cluster.Coherence) >>
        ELSE <<>>)
    \o (IF Len(Cluster.SpectralMap) > 1
        THEN << [FTransformationRule("ColorMapping", Cluster.Coherence)
                    EXCEPT !.ColorMap = SpectralColorMap(Cluster.SpectralMap)] >>
        ELSE <<>>)

EvolveTransformationRules(Clusters) ==
    Flatten([i \in 1..Len(Clusters) |-> RulesOfCluster(Clusters[i])])

\* Rules[i].Confidence > 0.7f, read with `>=`
ChainThreshold_Inclusive(Rule) == ~RatioLess(Rule.Confidence, Ratio(7, 10))

\* Rules[i].Confidence > 0.7f
ChainThreshold(Rule) == RatioLess(Ratio(7, 10), Rule.Confidence)

\* the body of ApplyBestRule's loop from index i (0-based) on
RECURSIVE ChainRules(_, _, _)
ChainRules(Result, Rules, i) ==
    IF i < Min(3, Len(Rules))
    THEN ChainRules(IF ChainThreshold(Rules[i + 1])
                    THEN Apply(Rules[i + 1], Result)
                    ELSE Result,
                    Rules, i + 1)
    ELSE Result

ApplyBestRule(Input, Rules) ==
    IF Len(Rules) = 0
    THEN Input
    ELSE ChainRules(Apply(Rules[1], Input), Rules, 1)

\* ParseTaskJSON: a task is [train, test], sequences of [input, output] with
\* grids as rows of numbers; of a test entry only the input is read
ParseTaskJSON(JSON) ==
    [TrainingExamples |->
        [i \in 1..Len(JSON.train) |->
            FARCExample(FGrid(JSON.train[i].input), FGrid(JSON.train[i].output))],
     TestExamples |->
        [i \in 1..Len(JSON.test) |->
            FARCExample(FGrid(JSON.test[i].input), FARCGrid(0, 0))]]

\* FARCNeuralEncoder::EncodeGrid: one activation per cell of a valid colour
\* (intensity in tenths)
EncodeGrid(G) ==
    LET cells == SelectSeq(RowMajor(G.Width, G.Height),
                           LAMBDA c : GetCell(G, c[1], c[2]) >= 0)
    IN  [k \in 1..Len(cells) |->
            [Position |-> << cells[k][1] * 100, cells[k][2] * 100, 0 >>,
             Wavelength |-> ColorWavelengthMap[GetCell(G, cells[k][1], cells[k][2]) + 1],
             Intensity |-> 10 + GetCell(G, cells[k][1], cells[k][2]),
             GridIndex |-> cells[k][2] * G.Width + cells[k][1]]]

\* SolveTask: the patterns handed to InjectPatternsIntoNebula
TrainingPatterns(Task) ==
    Flatten([i \in 1..Len(Task.TrainingExamples) |->
                << EncodeGrid(Task.TrainingExamples[i].Input),
                   EncodeGrid(Task.TrainingExamples[i].Output) >>])

\* the examples SolveTask tests extracted rules on, the test examples included
ExamplesTested_WithTest(Task) ==
    [i \in 1..Len(Task.TrainingExamples) |->
        [from |-> "train", index |-> i, example |-> Task.TrainingExamples[i]]]
    \o [i \in 1..Len(Task.TestExamples) |->
          [from |-> "test", index |-> i, example |-> Task.TestExamples[i]]]

\* the examples SolveTask tests extracted rules on:
\* for (const FARCExample& Example : CurrentTask.TrainingExamples)
ExamplesTested(Task) ==
    [i \in 1..Len(Task.TrainingExamples) |->
        [from |-> "train", index |-> i, example |-> Task.TrainingExamples[i]]]

\* the example at which the test loop breaks, or 0
FirstMismatch(Task, Rules) ==
    LET tested == ExamplesTested(Task)
        wrong == { i \in 1..Len(tested) :
                     ~GridsMatch(ApplyBestRule(tested[i].example.Input, Rules),
                                 tested[i].example.Output) }
    IN  IF wrong = {} THEN 0 ELSE CHOOSE i \in wrong : \A j \in wrong : i <= j

\* bAllCorrect after the test loop
AllCorrect(Task, Rules) == FirstMismatch(Task, Rules) = 0

\* the examples whose output the test loop compared a prediction with
ComparedByTest(Task, Rules) ==
    LET tested == ExamplesTested(Task)
        last == IF FirstMismatch(Task, Rules) = 0 THEN Len(tested)
                ELSE FirstMismatch(Task, Rules)
    IN  { << tested[i].from, tested[i].index >> : i \in 1..last }

\* ------------------------------------------------------------------------
\* FValidityOracle (src/unnamed/part_000)
\* ------------------------------------------------------------------------
RatioAdd(a, b) == << a[1] * b[2] + b[1] * a[2], a[2] * b[2] >>

\* ExtractTransformation: translation = average velocity * 100 (whole cells
\* for a velocity in hundredths); a rotation only when |angular momentum| >
\* 0.01.  The average velocity of the member neurons and
\* CalculateAngularMomentum are read from the cluster record.
ExtractTransformation(Cluster) ==
    [Translation |-> [X |-> Cluster.Velocity[1], Y |-> Cluster.Velocity[2], Den |-> 1],
     QuarterTurns |-> IF Abs(Cluster.AngularVelocityZ) > 10
                      THEN RoundToInt(Cluster.AngularVelocityZ, 1000) % 4
                      ELSE 0]

\* ApplyClusterTransform is not part of the sources at hand.  Taken as: the
\* grid moved by the rounded translation, then turned by the quarter turns.
RECURSIVE Turned(_, _)
Turned(G, quarterTurns) ==
    IF quarterTurns = 0 THEN G ELSE Turned(ApplyRotation(G), quarterTurns - 1)

ApplyClusterTransform(Input, ClusterTransform) ==
    Turned(ApplyTranslation([Translation |-> ClusterTransform.Translation], Input),
           ClusterTransform.QuarterTurns)

\* float(Matches) / float(Total); 0/0 when both grids have no cell
CalculateGridSimilarity(A, B) ==
    IF A.Width # B.Width \/ A.Height # B.Height
    THEN Ratio(0, 1)
    ELSE Ratio(Cardinality({ c \in FCells(A) : GetCell(A, c[1], c[2]) = GetCell(B, c[1], c[2]) }),
               A.Width * A.Height)

RECURSIVE TotalScore(_, _, _)
TotalScore(ClusterTransform, Examples, n) ==
    IF n = 0 THEN Ratio(0, 1)
    ELSE RatioAdd(TotalScore(ClusterTransform, Examples, n - 1),
                  CalculateGridSimilarity(
                      ApplyClusterTransform(Examples[n].Input, ClusterTransform),
                      Examples[n].Output))

\* TotalScore / TrainingExamples.Num()
EvaluatePatternValidity(Cluster, Examples) ==
    LET total == TotalScore(ExtractTransformation(Cluster), Examples, Len(Examples))
    IN  Ratio(total[1], total[2] * Len(Examples))

\* a score that is no number: 0.0f / 0
IsNaN(score) == score[2] = 0

\* UpdateNeuronLuminosity: Lerp(L, L * (1 + score), DeltaTime * 10) is
\* L + L * score * DeltaTime * 10, and Energy += score * 0.1 * DeltaTime
\* (luminosity and energy in hundredths, DeltaTime in thousandths, rounded
\* down); a score that is no number leaves no number in both
UpdateNeuronLuminosity(Neuron, ValidityScore, DeltaTime) ==
    IF IsNaN(ValidityScore)
    THEN [Neuron EXCEPT !.Luminosity = 0, !.Energy = 0, !.NaN = { "Luminosity", "Energy" }]
    ELSE [Neuron EXCEPT
            !.Luminosity = @ + (@ * DeltaTime * ValidityScore[1]) \div (100 * ValidityScore[2]),
            !.Energy = IF "Energy" \in Neuron.NaN THEN 0
                       ELSE @ + (ValidityScore[1] * DeltaTime) \div (100 * ValidityScore[2])]

\* the inner loop of EvolveFrame's first step: the members of one cluster
\* from the k-th on
RECURSIVE MembersUpdated(_, _, _, _, _)
MembersUpdated(Neurons, NeuronIDs, Validity, DeltaTime, k) ==
    IF k > Len(NeuronIDs) THEN Neurons
    ELSE MembersUpdated(
            [Neurons EXCEPT ![NeuronIDs[k] + 1] = UpdateNeuronLuminosity(@, Validity, DeltaTime)],
            NeuronIDs, Validity, DeltaTime, k + 1)

\* the first step of EvolveFrame: the clusters from the k-th on, each scored
\* against the training examples
RECURSIVE OracleStep(_, _, _, _, _)
OracleStep(Neurons, Clusters, CurrentTrainingExamples, DeltaTime, k) ==
    IF k > Len(Clusters) THEN Neurons
    ELSE LET Validity == EvaluatePatternValidity(Clusters[k], CurrentTrainingExamples)
         IN  OracleStep(MembersUpdated(Neurons, Clusters[k].NeuronIDs, Validity, DeltaTime, 1),
                        Clusters, CurrentTrainingExamples, DeltaTime, k + 1)

\* ------------------------------------------------------------------------
\* FDiversityController (src/src/DiversityMaintenance.cpp)
\*
\* Fixed point, a product or quotient rounded down: luminosity, energy and the
\* inhibition field in hundredths, the temperature and DeltaTime in
\* thousandths, a velocity (its X component) in ten-thousandths.  Neurons lie
\* on the X axis.  A random draw is an argument.
\* ------------------------------------------------------------------------
SystemTemperature == 1000000   \* float SystemTemperature = 1000.0f
CoolingRate == 995             \* float CoolingRate = 0.995f
MinTemperature == 10000        \* float MinTemperature = 10.0f
InhibitionRadius == 500        \* float InhibitionRadius = 500.0f
MinLuminosity == 10            \* FMath::Clamp(Neuron.Luminosity, 0.1f, 100.0f)
MaxLuminosity == 10000
FrameDeltaTime == 16           \* NebulaCore->EvolveFrame(0.016f)

\* NaN is the set of the float fields that hold no number; such a field is
\* kept at 0, which every product and quotient below maps to 0 as they map
\* NaN to NaN, and which no comparison `>` finds large, as none finds NaN.
FNeuronState(Position, Velocity, Luminosity, Energy) ==
    [Position |-> Position, Velocity |-> Velocity,
     Luminosity |-> Luminosity, Energy |-> Energy, NaN |-> {}]

Clamp(x, lo, hi) == IF x < lo THEN lo ELSE IF x > hi THEN hi ELSE x

\* FMath::Sqrt, rounded down
RECURSIVE SqrtBetween(_, _, _)
SqrtBetween(x, lo, hi) ==
    IF lo >= hi THEN lo
    ELSE LET mid == (lo + hi + 1) \div 2
         IN  IF mid * mid <= x THEN SqrtBetween(x, mid, hi) ELSE SqrtBetween(x, lo, mid - 1)

ISqrt(x) == SqrtBetween(x, 0, Min(x, 40000))

\* ApplyThermalNoise on one neuron; draw = <<X of RandomForce, the luminosity
\* draw in tenths of its range>>, each in -1..1.  FMath::Clamp is not part of
\* the sources at hand: of a luminosity that is no number it returns that
\* value or, when its comparisons fall through, the upper limit (ClampOfNaN).
ThermalNoise(Neuron, Temperature, DeltaTime, draw, ClampOfNaN) ==
    LET NoiseStep == ISqrt((Temperature * DeltaTime * DeltaTime) \div 100000)
        LuminosityNoise == draw[2] * (Temperature \div 1000)
    IN  IF "Luminosity" \in Neuron.NaN
        THEN [Neuron EXCEPT
                !.Velocity = @ + draw[1] * NoiseStep,
                !.Luminosity = IF ClampOfNaN = "Max" THEN MaxLuminosity ELSE 0,
                !.NaN = IF ClampOfNaN = "Max" THEN @ \ { "Luminosity" } ELSE @]
        ELSE [Neuron EXCEPT
                !.Velocity = @ + draw[1] * NoiseStep,
                !.Luminosity = Clamp((@ * (10000 + LuminosityNoise)) \div 10000,
                                     MinLuminosity, MaxLuminosity)]

ApplyThermalNoise(Neurons, Temperature, DeltaTime, draws, ClampOfNaN) ==
    [i \in 1..Len(Neurons) |->
        ThermalNoise(Neurons[i], Temperature, DeltaTime, draws[i], ClampOfNaN)]

\* x * FMath::Exp(-Distance / InhibitionRadius), at the distances neurons are
\* placed at: exp(0) = 1, exp(-0.5) = 0.6065
ExpDecay(x, Distance) ==
    CASE Distance = 0 -> x
      [] Distance = 250 -> (x * 6065) \div 10000

RECURSIVE InhibitionFrom(_, _, _)
InhibitionFrom(Neurons, j, i) ==
    IF i = 0 THEN 0
    ELSE InhibitionFrom(Neurons, j, i - 1)
         + (LET Distance == Abs(Neurons[i].Position - Neurons[j].Position)
            IN  IF Neurons[i].Luminosity > 500 /\ i # j /\ Distance < InhibitionRadius
                THEN ExpDecay(Neurons[i].Luminosity \div 2, Distance)
                ELSE 0)

\* InhibitionField[j] after the first loop
InhibitionField(Neurons, j) == InhibitionFrom(Neurons, j, Len(Neurons))

\* the second loop of ApplyLateralInhibition on one neuron; direction = X of
\* RepulsionDirection
Inhibited(Neuron, Field, direction) ==
    [Neuron EXCEPT
        !.Luminosity = (@ * 100) \div (100 + Field),
        !.Velocity = IF Field > 10 THEN @ + direction * Field * 1000 ELSE @]

ApplyLateralInhibition(Neurons, directions) ==
    [j \in 1..Len(Neurons) |->
        Inhibited(Neurons[j], InhibitionField(Neurons, j), directions[j])]

\* ApplyDiversityPressure; IdentifyClusters is not part of the sources at
\* hand: Overgrown is the set of neurons it puts in a cluster of more than a
\* tenth of all neurons
ApplyDiversityPressure(Neurons, Overgrown) ==
    [i \in 1..Len(Neurons) |->
        IF i \in Overgrown
        THEN [Neurons[i] EXCEPT !.Luminosity = (@ * 95) \div 100,
                                !.Energy = (@ * 9) \div 10]
        ELSE Neurons[i]]

\* ApplyRandomPerturbation from the k-th pick on; a pick is RandomIndex, the X
\* of RandomKick and the luminosity factor (1 when there is no spike).  Only
\* the first Len(Neurons) neurons of the array are kept in the model.
RECURSIVE Perturbed(_, _, _)
Perturbed(Neurons, picks, k) ==
    IF k > Len(picks) THEN Neurons
    ELSE LET pick == picks[k]
             hit == IF pick.RandomIndex < Len(Neurons)
                    THEN [Neurons EXCEPT
                            ![pick.RandomIndex + 1].Velocity = @ + pick.RandomKick * 10000,
                            ![pick.RandomIndex + 1].Luminosity = @ * pick.Spike]
                    ELSE Neurons
         IN  Perturbed(hit, picks, k + 1)

ApplyRandomPerturbation(Neurons, picks) == Perturbed(Neurons, picks, 1)

\* the cooling without the lower limit
CoolDown_NoFloor(Temperature) == (Temperature * CoolingRate) \div 1000

\* SystemTemperature *= CoolingRate; then FMath::Max(SystemTemperature, MinTemperature)
CoolDown(Temperature) == Max((Temperature * CoolingRate) \div 1000, MinTemperature)

\* UpdateSystemDynamics with the periodic perturbation one frame early
UpdateSystemDynamics_OneEarly(Neurons, Temperature, DeltaTime, IterationCount, draws) ==
    LET noisy == ApplyThermalNoise(Neurons, Temperature, DeltaTime, draws.thermal,
                                   draws.ClampOfNaN)
        inhibited == ApplyLateralInhibition(noisy, draws.directions)
        pressed == ApplyDiversityPressure(inhibited, draws.Overgrown)
        periodic == IterationCount % 100 = 99
        kicked == IF periodic
                  THEN ApplyRandomPerturbation(pressed, draws.picks)
                  ELSE pressed
    IN  [Neurons |-> kicked,
         SystemTemperature |-> CoolDown(Temperature),
         Pressed |-> pressed,
         Perturbation |-> periodic]

\* UpdateSystemDynamics: the neurons and the temperature after the call;
\* Pressed are the neurons as its first three steps left them, Perturbation
\* tells whether ApplyRandomPerturbation was called
UpdateSystemDynamics(Neurons, Temperature, DeltaTime, IterationCount, draws) ==
    LET noisy == ApplyThermalNoise(Neurons, Temperature, DeltaTime, draws.thermal,
                                   draws.ClampOfNaN)
        inhibited == ApplyLateralInhibition(noisy, draws.directions)
        pressed == ApplyDiversityPressure(inhibited, draws.Overgrown)
        periodic == IterationCount % 100 = 0
        kicked == IF periodic
                  THEN ApplyRandomPerturbation(pressed, draws.picks)
                  ELSE pressed
    IN  [Neurons |-> kicked,
         SystemTemperature |-> CoolDown(Temperature),
         Pressed |-> pressed,
         Perturbation |-> periodic]

\* ------------------------------------------------------------------------
\* NEBULAEmergentGalaxy (src/unnamed/part_001)
\*
\* Fixed point in ten-thousandths, a product or quotient rounded towards 0:
\* masses, luminosities, temperatures, times and intensities.  Particles lie
\* on the X axis.  The gravitational constant G = 6.6743e-11 is far below the
\* fixed-point unit: a neuron's position and velocity are pairs [c, g] that
\* stand for c + g * G, the terms in G * G dropped; a comparison of a
\* distance with a threshold reads c.  A random draw is an argument.
\* ------------------------------------------------------------------------
FxMul(a, b) ==
    IF (a < 0) = (b < 0) THEN (Abs(a) * Abs(b)) \div 10000
    ELSE -((Abs(a) * Abs(b)) \div 10000)

FxDiv(a, b) ==
    IF (a < 0) = (b < 0) THEN (Abs(a) * 10000) \div Abs(b)
    ELSE -((Abs(a) * 10000) \div Abs(b))

Sign(a) == IF a > 0 THEN 1 ELSE IF a < 0 THEN -1 ELSE 0

\* distance * distance, the distance read in hundredths
Square(distance) == (distance \div 100) * (distance \div 100)

\* a float that is a number, and the float 0.0f / 0.0f
Number(v) == [nan |-> FALSE, v |-> v]
NaN == [nan |-> TRUE, v |-> 0]

\* Neuron::updateSpectrum: the colour class of a temperature
updateSpectrum(temperature) ==
    IF temperature < 35000000 THEN "red"
    ELSE IF temperature < 50000000 THEN "orange"
    ELSE IF temperature < 60000000 THEN "yellow"
    ELSE IF temperature < 75000000 THEN "white"
    ELSE "blue"

\* mass * temperature / 5778.0f, the temperature read in whole kelvins
Luminosity(mass, temperature) == (mass * (temperature \div 10000)) \div 5778

\* a neuron as initializeGalaxy leaves it, at the given place and speed
Neuron(position, velocity, mass, temperature) ==
    [position |-> [c |-> position, g |-> 0],
     velocity |-> [c |-> velocity, g |-> 0],
     mass |-> mass,
     luminosity |-> Luminosity(mass, temperature),
     spectrum |-> updateSpectrum(temperature),
     temperature |-> temperature,
     age |-> 0,
     connections |-> 0,
     activation |-> 0]

\* Photon(): at the origin, no direction, intensity 1, active
Photon == [position |-> 0, direction |-> 0, intensity |-> 10000, active |-> TRUE]

\* a photon as initializeGalaxy leaves it when there are neurons
EmittedPhoton(sourceNeuron, direction) ==
    [position |-> sourceNeuron.position.c, direction |-> direction,
     intensity |-> sourceNeuron.luminosity, active |-> TRUE]

\* the order of the calls in evolveFrame
PhaseOrder ==
    << "updateNeuronDynamics", "updatePhotonPropagation", "updateNeuralConnections",
       "updateStellarEvolution", "detectEmergentPatterns" >>

\* the phase that follows a phase, connections and stellar evolution swapped
NextPhase_Swapped(phase) ==
    CASE phase = "updateNeuronDynamics" -> "updatePhotonPropagation"
      [] phase = "updatePhotonPropagation" -> "updateStellarEvolution"
      [] phase = "updateStellarEvolution" -> "updateNeuralConnections"
      [] phase = "updateNeuralConnections" -> "detectEmergentPatterns"
      [] phase = "detectEmergentPatterns" -> "idle"

\* the call that follows a call in evolveFrame
NextPhase(phase) ==
    CASE phase = "updateNeuronDynamics" -> "updatePhotonPropagation"
      [] phase = "updatePhotonPropagation" -> "updateNeuralConnections"
      [] phase = "updateNeuralConnections" -> "updateStellarEvolution"
      [] phase = "updateStellarEvolution" -> "detectEmergentPatterns"
      [] phase = "detectEmergentPatterns" -> "idle"

\* no neuron has pulled at any neuron yet
NoPulls(neurons) ==
    [k \in 1..Len(neurons) |-> [idx \in 0..(Len(neurons) - 1) |-> 0]]

\* NEBULAEmergentGalaxy(neuronCount, photonCount) after initializeGalaxy;
\* pulls[i + 1][idx] counts the force terms that neuron idx has added to the
\* totalForce of neuron i in the frame
NEBULAEmergentGalaxy(neurons, photons) ==
    [pc |-> "idle",
     numNeurons |-> Len(neurons),
     numPhotons |-> Len(photons),
     neurons |-> neurons,
     photons |-> photons,
     simulationTime |-> 0,
     temperature |-> Number(27000000),
     deltaTime |-> 0,
     i |-> 0,
     log |-> <<>>,
     done |-> [phase \in { PhaseOrder[k] : k \in 1..5 } |-> 0],
     pulls |-> NoPulls(neurons),
     frames |-> 0]

\* totalForce with every sampled neuron pulling with unit force, whatever
\* the masses, the distance and G
RECURSIVE TotalForce_UnitPull(_, _, _, _)
TotalForce_UnitPull(neurons, i, samples, k) ==
    IF k > Len(samples) THEN [c |-> 0, g |-> 0]
    ELSE LET idx == samples[k]
             r == neurons[idx + 1].position.c - neurons[i + 1].position.c
             rest == TotalForce_UnitPull(neurons, i, samples, k + 1)
         IN  [rest EXCEPT !.c = @ + (IF idx # i /\ Abs(r) > 1000 THEN Sign(r) * 10000 ELSE 0)]

\* totalForce after the samples from the k-th on: every force_magnitude is
\* a multiple of G
RECURSIVE TotalForce(_, _, _, _)
TotalForce(neurons, i, samples, k) ==
    IF k > Len(samples) THEN [c |-> 0, g |-> 0]
    ELSE LET idx == samples[k]
             r == neurons[idx + 1].position.c - neurons[i + 1].position.c
             distance == Abs(r)
             force_magnitude ==
                 FxDiv(FxMul(neurons[i + 1].mass, neurons[idx + 1].mass),
                       Square(distance))
             rest == TotalForce(neurons, i, samples, k + 1)
         IN  [rest EXCEPT !.g = @ + (IF idx # i /\ distance > 1000
                                     THEN Sign(r) * force_magnitude ELSE 0)]

\* how often the sample loop of neuron i has come to each neuron and gone on
\* past `if (idx == i) continue`
Pulls(neurons, i, samples) ==
    [idx \in 0..(Len(neurons) - 1) |->
        IF idx = i THEN 0
        ELSE Cardinality({ k \in 1..Len(samples) : samples[k] = idx })]

\* updateNeuronDynamics, the loop body for neuron i; samples are the values
\* of rng() % neurons.size()
NeuronDynamics(neurons, i, deltaTime, samples) ==
    LET n == neurons[i + 1]
        totalForce == TotalForce(neurons, i, samples, 1)
        inverse == FxDiv(10000, n.mass)
        velocity == [c |-> n.velocity.c + FxMul(FxMul(totalForce.c, inverse), deltaTime),
                     g |-> n.velocity.g + FxMul(FxMul(totalForce.g, inverse), deltaTime)]
    IN  [neurons EXCEPT ![i + 1] =
            [n EXCEPT !.velocity = velocity,
                      !.position = [c |-> n.position.c + FxMul(velocity.c, deltaTime),
                                    g |-> n.position.g + FxMul(velocity.g, deltaTime)],
                      !.age = @ + deltaTime]]

\* kinetic plus potential energy of two bodies, as c + g * G
\* (PhysicsValidator::testEnergyConservation)
TotalEnergy(body1, body2) ==
    LET distance == Abs(body2.position.c - body1.position.c)
    IN  [c |-> FxMul(5000, FxMul(body1.mass, FxMul(body1.velocity.c, body1.velocity.c)))
               + FxMul(5000, FxMul(body2.mass, FxMul(body2.velocity.c, body2.velocity.c))),
         g |-> FxMul(body1.mass, FxMul(body1.velocity.c, body1.velocity.g))
               + FxMul(body2.mass, FxMul(body2.velocity.c, body2.velocity.g))
               - FxDiv(FxMul(body1.mass, body2.mass), distance)]

\* energyError < 0.01f.  G is below 1e-10, so g * G is less than one
\* fixed-point unit for every g that fits the integers used here: an energy
\* c + g * G lies within one unit of c.
EnergyErrorBelowTolerance(initialTotal, finalTotal) ==
    (Abs(finalTotal.c - initialTotal.c) + 2) * 100 < Abs(initialTotal.c) - 1

\* a place past the 10000 units within which a photon stays active
OutOfRange == 100010000

\* Photon::propagate: light covers more than 20000 units in any deltaTime of
\* at least one fixed-point unit
propagate(photon, deltaTime) ==
    IF photon.direction = 0 \/ deltaTime = 0 THEN photon
    ELSE [photon EXCEPT !.position = photon.direction * OutOfRange]

\* the loop over the neurons for one photon, from neuron k on
RECURSIVE Attenuated(_, _, _)
Attenuated(photon, neurons, k) ==
    IF k > Len(neurons) THEN photon
    ELSE IF Abs(photon.position - neurons[k].position.c) < neurons[k].mass * 10
         THEN LET intensity == FxMul(photon.intensity, 9000)
              IN  IF intensity < 1000
                  THEN [photon EXCEPT !.intensity = intensity, !.active = FALSE]
                  ELSE Attenuated([photon EXCEPT !.intensity = intensity], neurons, k + 1)
         ELSE Attenuated(photon, neurons, k + 1)

\* updatePhotonPropagation, the loop body for photon i
PhotonPropagation(photons, neurons, i, deltaTime) ==
    LET photon == photons[i + 1]
        moved == Attenuated(propagate(photon, deltaTime), neurons, 1)
    IN  IF ~photon.active THEN photons
        ELSE [photons EXCEPT ![i + 1] =
                IF Abs(moved.position) > 100000000
                THEN [moved EXCEPT !.active = FALSE]
                ELSE moved]

\* the regeneration loop entered when fewer than half of the photons are
\* active, the half not rounded down
Regenerated_ExactHalf(photons, neurons, numPhotons, emit, source) ==
    LET activePhotons == Cardinality({ k \in 1..Len(photons) : photons[k].active })
    IN  IF 2 * activePhotons < numPhotons
        THEN [k \in 1..Len(photons) |->
                IF ~photons[k].active /\ emit[k]
                THEN LET sourceNeuron == neurons[(source[k] % Len(neurons)) + 1]
                     IN  [photons[k] EXCEPT !.position = sourceNeuron.position.c,
                                            !.active = TRUE,
                                            !.intensity = sourceNeuron.luminosity]
                ELSE photons[k]]
        ELSE photons

\* the photons after the regeneration loop; emit[k] tells whether
\* uniform_dist(rng) < 0.1f for photon k and source[k] is rng()
Regenerated(photons, neurons, numPhotons, emit, source) ==
    LET activePhotons == Cardinality({ k \in 1..Len(photons) : photons[k].active })
    IN  IF activePhotons < numPhotons \div 2
        THEN [k \in 1..Len(photons) |->
                IF ~photons[k].active /\ emit[k]
                THEN LET sourceNeuron == neurons[(source[k] % Len(neurons)) + 1]
                     IN  [photons[k] EXCEPT !.position = sourceNeuron.position.c,
                                            !.active = TRUE,
                                            !.intensity = sourceNeuron.luminosity]
                ELSE photons[k]]
        ELSE photons

\* neurons[i].activation and connections after the loop over j, from j on
RECURSIVE Neighbours(_, _, _)
Neighbours(neurons, i, j) ==
    IF j >= Len(neurons) THEN [connections |-> 0, activation |-> 0]
    ELSE LET rest == Neighbours(neurons, i, j + 1)
             distance == Abs(neurons[i + 1].position.c - neurons[j + 1].position.c)
         IN  IF i # j /\ distance < 1000000
             THEN [connections |-> rest.connections + 1,
                   activation |-> rest.activation
                                    + FxDiv(neurons[j + 1].luminosity, distance + 10000)]
             ELSE rest

\* updateNeuralConnections, the loop body for neuron i
NeuralConnections(neurons, i) ==
    LET found == Neighbours(neurons, i, 0)
        activation == IF found.connections > 0
                      THEN found.activation \div found.connections
                      ELSE found.activation
    IN  [neurons EXCEPT ![i + 1] =
            [@ EXCEPT !.connections = found.connections,
                      !.activation = activation,
                      !.luminosity = FxMul(@, 9900) + FxMul(activation, 100)]]

\* updateStellarEvolution, the loop body for neuron i; u is uniform_dist(rng)
\* updateStellarEvolution on neuron i without its last assignment
StellarEvolution_LuminosityKept(neurons, i, deltaTime, u) ==
    LET n == neurons[i + 1]
        rate == FxMul(n.mass, deltaTime)
        temperature == Clamp(n.temperature + Sign(u - 5000) * ((rate * Abs(u - 5000)) \div 100000),
                             10000000, 500000000)
        mass == IF n.mass > 20000
                THEN Max(1000, n.mass - rate \div 100000)
                ELSE n.mass
    IN  [neurons EXCEPT ![i + 1] =
            [n EXCEPT !.temperature = temperature,
                      !.mass = mass,
                      !.spectrum = updateSpectrum(temperature)]]

StellarEvolution(neurons, i, deltaTime, u) ==
    LET n == neurons[i + 1]
        rate == FxMul(n.mass, deltaTime)
        temperature == Clamp(n.temperature + Sign(u - 5000) * ((rate * Abs(u - 5000)) \div 100000),
                             10000000, 500000000)
        mass == IF n.mass > 20000
                THEN Max(1000, n.mass - rate \div 100000)
                ELSE n.mass
    IN  [neurons EXCEPT ![i + 1] =
            [n EXCEPT !.temperature = temperature,
                      !.mass = mass,
                      !.spectrum = updateSpectrum(temperature),
                      !.luminosity = Luminosity(mass, temperature)]]

RECURSIVE SumOfTemperatures(_, _)
SumOfTemperatures(neurons, k) ==
    IF k = 0 THEN 0 ELSE neurons[k].temperature \div 10000 + SumOfTemperatures(neurons, k - 1)

\* detectEmergentPatterns: the galaxy temperature it stores, avgTemperature
\* after `avgTemperature /= neurons.size()`
detectEmergentPatterns(neurons) ==
    IF Len(neurons) = 0 THEN NaN
    ELSE Number((SumOfTemperatures(neurons, Len(neurons)) * 10000) \div Len(neurons))

\* ------------------------------------------------------------------------
\* Cell access: one grid object, constructed and then read and written
\* ------------------------------------------------------------------------
NoCall == [op |-> "none", kind |-> "none", x |-> 0, y |-> 0, v |-> 0, n |-> 0]

\* coordinates the environment passes: one step outside the largest grid on each side
Coords == -1..MaxDim

\* the standalone solver before any training pair is collected
SolverIdle == trainInputs = <<>> /\ trainOutputs = <<>> /\ printedRule = ""

\* a default-constructed FARCTask
FARCTask == [TrainingExamples |-> <<>>, TestExamples |-> <<>>]

\* a solver that has not been asked to solve anything: the task text and the
\* parsed task, the oracle's training examples, the patterns injected, the
\* position in SolveTask, and of the last frame the clusters, their validity
\* scores and the outcome of the rule test
IdleRun ==
    [json |-> [train |-> <<>>, test |-> <<>>],
     task |-> FARCTask,
     CurrentTrainingExamples |-> <<>>,
     injected |-> <<>>,
     pc |-> "idle",
     Cycle |-> 0,
     Clusters |-> <<>>,
     validity |-> <<>>,
     tested |-> FALSE,
     Rules |-> <<>>,
     bAllCorrect |-> FALSE,
     compared |-> {},
     via |-> "none",
     ret |-> FARCGrid(0, 0)]

\* SolveTask up to the evolution loop.  The oracle's CurrentTrainingExamples
\* is assigned nowhere in the sources at hand; taken as the training examples
\* of the parsed task.
SolveTask_Parsed(r, JSON) ==
    LET CurrentTask == ParseTaskJSON(JSON)
    IN  [r EXCEPT !.json = JSON,
                  !.task = CurrentTask,
                  !.CurrentTrainingExamples = CurrentTask.TrainingExamples,
                  !.injected = TrainingPatterns(CurrentTask),
                  !.pc = "evolving",
                  !.Cycle = 0]

\* ANebulaEmergent::EvolveFrame, step 1: the validity of every active cluster
FrameValidity(Clusters, Examples) ==
    [i \in 1..Len(Clusters) |-> EvaluatePatternValidity(Clusters[i], Examples)]

\* one pass of the evolution loop that attempts rule extraction in every cycle
SolveTask_Cycle_EveryCycle(r, Clusters) ==
    LET Rules == EvolveTransformationRules(Clusters)
        bAllCorrect == AllCorrect(r.task, Rules)
        testedRun == [r EXCEPT !.Clusters = Clusters,
                               !.validity = FrameValidity(Clusters, r.CurrentTrainingExamples),
                               !.tested = TRUE,
                               !.Rules = Rules,
                               !.bAllCorrect = bAllCorrect,
                               !.compared = @ \cup ComparedByTest(r.task, Rules)]
    IN  IF bAllCorrect /\ Len(r.task.TestExamples) > 0
        THEN [testedRun EXCEPT !.pc = "returned",
                               !.via = "clusters",
                               !.ret = ApplyBestRule(r.task.TestExamples[1].Input, Rules)]
        ELSE [testedRun EXCEPT !.Cycle = @ + 1]

\* one pass of SolveTask's evolution loop, the core reporting Clusters
SolveTask_Cycle(r, Clusters) ==
    LET scored == [r EXCEPT !.Clusters = Clusters,
                            !.validity = FrameValidity(Clusters, r.CurrentTrainingExamples)]
        Rules == EvolveTransformationRules(Clusters)
        bAllCorrect == AllCorrect(r.task, Rules)
        testedRun == [scored EXCEPT !.tested = TRUE,
                                    !.Rules = Rules,
                                    !.bAllCorrect = bAllCorrect,
                                    !.compared = @ \cup ComparedByTest(r.task, Rules)]
    IN  IF r.Cycle % 10 # 0
        THEN [scored EXCEPT !.tested = FALSE, !.Rules = <<>>, !.bAllCorrect = FALSE,
                            !.Cycle = @ + 1]
        ELSE IF bAllCorrect /\ Len(r.task.TestExamples) > 0
             THEN [testedRun EXCEPT !.pc = "returned",
                                    !.via = "clusters",
                                    !.ret = ApplyBestRule(r.task.TestExamples[1].Input, Rules)]
             ELSE [testedRun EXCEPT !.Cycle = @ + 1]

\* SolveTask after the loop, DiscoverRules having returned Rules
SolveTask_Fallback(r, Rules) ==
    [r EXCEPT !.tested = FALSE,
              !.Rules = Rules,
              !.bAllCorrect = FALSE,
              !.pc = "returned",
              !.via = "fallback",
              !.ret = IF Len(r.task.TestExamples) > 0
                      THEN ApplyBestRule(r.task.TestExamples[1].Input, Rules)
                      ELSE FARCGrid(0, 0)]

\* no ANebulaEmergent::EvolveFrame has run in this process
NoStatics == [SystemTemperature |-> SystemTemperature, IterationCount |-> 0]

\* no galaxy has been constructed
NoGalaxy == [NEBULAEmergentGalaxy(<<>>, <<>>) EXCEPT !.pc = "none"]

EngineIdle ==
    /\ task = FARCTask /\ foundRules = <<>> /\ candidates = <<>> /\ clusters = <<>>
    /\ run = IdleRun /\ twin = IdleRun
    /\ nebulae = <<>> /\ statics = NoStatics /\ galaxy = NoGalaxy

CellInit ==
    /\ SolverIdle
    /\ EngineIdle
    /\ \E w \in 0..MaxDim, h \in 0..MaxDim :
         \/ grid = ARCGrid(w, h) /\ fgrid = FARCGrid(0, 0)
         \/ grid = ARCGrid(0, 0) /\ fgrid = FARCGrid(w, h)
    /\ call = NoCall
    /\ ret = 0
    /\ before = ARCGrid(0, 0)

ARCGrid_getCell ==
    /\ call.n < MaxCalls
    /\ \E x \in Coords, y \in Coords :
         /\ call' = [op |-> "getCell", kind |-> "ARCGrid", x |-> x, y |-> y, v |-> 0,
                     n |-> call.n + 1]
         /\ ret' = getCell(grid, x, y)
         /\ before' = grid
    /\ UNCHANGED <<grid, fgrid>>
    /\ UNCHANGED solverVars
    /\ UNCHANGED engineVars

ARCGrid_setCell ==
    /\ call.n < MaxCalls
    /\ \E x \in Coords, y \in Coords, v \in Colors :
         /\ call' = [op |-> "setCell", kind |-> "ARCGrid", x |-> x, y |-> y, v |-> v,
                     n |-> call.n + 1]
         /\ grid' = setCell(grid, x, y, v)
         /\ ret' = 0
         /\ before' = grid
    /\ UNCHANGED fgrid
    /\ UNCHANGED solverVars
    /\ UNCHANGED engineVars

FARCGrid_GetCell ==
    /\ call.n < MaxCalls
    /\ \E X \in Coords, Y \in Coords :
         /\ call' = [op |-> "getCell", kind |-> "FARCGrid", x |-> X, y |-> Y, v |-> 0,
                     n |-> call.n + 1]
         /\ ret' = GetCell(fgrid, X, Y)
         /\ before' = fgrid
    /\ UNCHANGED <<grid, fgrid>>
    /\ UNCHANGED solverVars
    /\ UNCHANGED engineVars

FARCGrid_SetCell ==
    /\ call.n < MaxCalls
    /\ \E X \in Coords, Y \in Coords, V \in Colors :
         /\ call' = [op |-> "setCell", kind |-> "FARCGrid", x |-> X, y |-> Y, v |-> V,
                     n |-> call.n + 1]
         /\ fgrid' = SetCell(fgrid, X, Y, V)
         /\ ret' = 0
         /\ before' = fgrid
    /\ UNCHANGED grid
    /\ UNCHANGED solverVars
    /\ UNCHANGED engineVars

CellNext ==
    \/ ARCGrid_getCell
    \/ ARCGrid_setCell
    \/ FARCGrid_GetCell
    \/ FARCGrid_SetCell

SpecCell == CellInit /\ [][CellNext]_vars

\* the coordinate lies outside [0,width) x [0,height)
OutOfBounds(w, h, x, y) == x < 0 \/ x >= w \/ y < 0 \/ y >= h

\* C3 (ARCGrid): g is b with cell (x,y) set to v and nothing else changed
ARCOnlyCellChanged(b, g, x, y, v) ==
    /\ g.width = b.width /\ g.height = b.height
    /\ DOMAIN g.data = DOMAIN b.data
    /\ \A yy \in DOMAIN b.data :
         /\ DOMAIN g.data[yy] = DOMAIN b.data[yy]
         /\ \A xx \in DOMAIN b.data[yy] :
              g.data[yy][xx] = IF xx = x /\ yy = y THEN v ELSE b.data[yy][xx]

\* C3 (FARCGrid): G is B with cell (X,Y) set to V and nothing else changed
FARCOnlyCellChanged(B, G, X, Y, V) ==
    /\ G.Width = B.Width /\ G.Height = B.Height
    /\ DOMAIN G.Data = DOMAIN B.Data
    /\ \A yy \in DOMAIN B.Data :
         /\ DOMAIN G.Data[yy] = DOMAIN B.Data[yy]
         /\ \A xx \in DOMAIN B.Data[yy] :
              G.Data[yy][xx] = IF xx = X /\ yy = Y THEN V ELSE B.Data[yy][xx]

\* C3: for both grid types, a read outside the bounds returns the sentinel -1 and a
\* write outside the bounds leaves every cell, the width and the height unchanged;
\* a write inside the bounds changes cell (x,y) only and a read of (x,y) on the
\* grid it leaves returns the value written.
C3_OutOfBoundsAccess ==
    /\ (call.op = "getCell" /\ call.kind = "ARCGrid"
           /\ OutOfBounds(grid.width, grid.height, call.x, call.y))
         => ret = -1
    /\ (call.op = "getCell" /\ call.kind = "FARCGrid"
           /\ OutOfBounds(fgrid.Width, fgrid.Height, call.x, call.y))
         => ret = -1
    /\ (call.op = "setCell" /\ call.kind = "ARCGrid") =>
         IF OutOfBounds(before.width, before.height, call.x, call.y)
         THEN grid = before
         ELSE /\ ARCOnlyCellChanged(before, grid, call.x, call.y, call.v)
              /\ getCell(grid, call.x, call.y) = call.v
    /\ (call.op = "setCell" /\ call.kind = "FARCGrid") =>
         IF OutOfBounds(before.Width, before.Height, call.x, call.y)
         THEN fgrid = before
         ELSE /\ FARCOnlyCellChanged(before, fgrid, call.x, call.y, call.v)
              /\ GetCell(fgrid, call.x, call.y) = call.v

\* C3 witness: a write outside the bounds of a grid that already holds a colour
C3_Witness ==
    /\ call.op = "setCell" /\ call.kind = "ARCGrid" /\ call.v > 0
    /\ grid.width > 0 /\ grid.height > 0
    /\ OutOfBounds(grid.width, grid.height, call.x, call.y)
    /\ \E y \in DOMAIN grid.data : \E x \in DOMAIN grid.data[y] : grid.data[y][x] > 0

\* ------------------------------------------------------------------------
\* Pattern detection: a grid is built, cells are overwritten, detectPatterns is called
\* ------------------------------------------------------------------------
\* the 4x4 grid tiled by the 2x2 block b (b[1] b[2] / b[3] b[4])
Tiled(b) ==
    [width |-> 4, height |-> 4,
     data |-> [y \in 0..3 |-> [x \in 0..3 |-> b[(y % 2) * 2 + (x % 2) + 1]]]]

\* the tiles are drawn over background and one colour
TiledGrids == { Tiled(b) : b \in [1..4 -> {0, 1}] }

\* the sizes of the grids handed to the detector
DetectDims == { <<0, 0>>, <<1, 1>>, <<2, 1>>, <<3, 2>>, <<4, 4>>, <<5, 4>>, <<6, 6>> }

DetectorInputs == { ARCGrid(d[1], d[2]) : d \in DetectDims } \cup TiledGrids

DetectInit ==
    /\ SolverIdle
    /\ EngineIdle
    /\ grid \in DetectorInputs
    /\ fgrid = FARCGrid(0, 0)
    /\ call = NoCall
    /\ ret = <<>>
    /\ before = ARCGrid(0, 0)

\* the caller overwrites one cell of the grid
Detect_setCell ==
    /\ call.n < MaxPaint
    /\ \E x \in 0..(grid.width - 1), y \in 0..(grid.height - 1), v \in Colors :
         grid' = setCell(grid, x, y, v)
    /\ call' = [NoCall EXCEPT !.op = "setCell", !.kind = "ARCGrid", !.n = call.n + 1]
    /\ ret' = <<>>
    /\ UNCHANGED <<fgrid, before>>
    /\ UNCHANGED solverVars
    /\ UNCHANGED engineVars

PatternDetector_detectPatterns ==
    /\ call.op # "detectPatterns"
    /\ call' = [call EXCEPT !.op = "detectPatterns", !.kind = "PatternDetector"]
    /\ ret' = detectPatterns(grid)
    /\ UNCHANGED <<grid, fgrid, before>>
    /\ UNCHANGED solverVars
    /\ UNCHANGED engineVars

DetectNext ==
    \/ Detect_setCell
    \/ PatternDetector_detectPatterns

SpecDetect == DetectInit /\ [][DetectNext]_vars

\* the grid equals its left-right mirror image
IsHorizontalMirror(g) ==
    \A y \in 0..(g.height - 1) : \A x \in 0..(g.width - 1) :
        g.data[y][x] = g.data[y][g.width - 1 - x]

\* C8: detectPatterns reports horizontal_symmetry exactly for the grids that equal
\* their left-right mirror image, and then with confidence at least 0.9.
C8_HorizontalSymmetryReported ==
    call.op = "detectPatterns" =>
        /\ (\E i \in DOMAIN ret : ret[i].type = "horizontal_symmetry")
             <=> IsHorizontalMirror(grid)
        /\ \A i \in DOMAIN ret :
             ret[i].type = "horizontal_symmetry" => ret[i].confidence >= 90

\* C8 witness: a mirrored grid with a coloured cell off the middle column is reported
C8_Witness ==
    /\ call.op = "detectPatterns"
    /\ grid.width >= 2
    /\ \E y \in 0..(grid.height - 1) : grid.data[y][0] > 0
    /\ IsHorizontalMirror(grid)
    /\ \E i \in DOMAIN ret : ret[i].type = "horizontal_symmetry"

\* the tag of a repetition pattern of block size b
RepetitionTag(b) == <<"repetition_1x1", "repetition_2x2", "repetition_3x3">>[b]

NonRepetitionTags ==
    {"rectangle", "horizontal_line", "vertical_line", "horizontal_symmetry",
     "vertical_symmetry"}

\* the offsets (x,y) of the windows of size b of g
WindowOffsets(g, b) == (0..(g.width - b)) \X (0..(g.height - b))

\* the cells of the window of size b at offset o
WindowCells(o, b) == { <<o[1] + dx, o[2] + dy>> : dx \in 0..(b - 1), dy \in 0..(b - 1) }

\* the windows at offsets o and q of g hold the same content
SameWindow(g, b, o, q) ==
    \A dx \in 0..(b - 1), dy \in 0..(b - 1) :
        g.data[o[2] + dy][o[1] + dx] = g.data[q[2] + dy][q[1] + dx]

\* the cells listed by pattern p
Listed(p) == { p.positions[k] : k \in DOMAIN p.positions }

\* the maximal runs of one colour other than the background in the rows
\* (horizontal) or the columns of g, as <<fixed, first, last>>
MaximalRuns(g, horizontal) ==
    LET len == IF horizontal THEN g.width ELSE g.height
        others == IF horizontal THEN g.height ELSE g.width
        at(fixed, k) == IF horizontal THEN g.data[fixed][k] ELSE g.data[k][fixed]
    IN  { r \in (0..(others - 1)) \X (0..(len - 1)) \X (0..(len - 1)) :
            /\ r[2] <= r[3]
            /\ at(r[1], r[2]) # 0
            /\ \A k \in r[2]..r[3] : at(r[1], k) = at(r[1], r[2])
            /\ r[2] = 0 \/ at(r[1], r[2] - 1) # at(r[1], r[2])
            /\ r[3] = len - 1 \/ at(r[1], r[3] + 1) # at(r[1], r[2]) }

\* the cells of a run
RunCells(r, horizontal) ==
    { IF horizontal THEN <<k, r[1]>> ELSE <<r[1], k>> : k \in r[2]..r[3] }

\* pattern p is the line of run r: its cells, each once, its colour, 0.7
IsLineOfRun(g, p, r, horizontal) ==
    /\ Listed(p) = RunCells(r, horizontal)
    /\ Len(p.positions) = r[3] - r[2] + 1
    /\ p.color = (IF horizontal THEN g.data[r[1]][r[2]] ELSE g.data[r[2]][r[1]])
    /\ p.confidence = 70

\* the patterns of ret with the given tag are, one for one, the lines of the
\* maximal runs of three cells and more
LinesAreLongRuns(g, tag, horizontal) ==
    LET lines == { i \in DOMAIN ret : ret[i].type = tag }
        long == { r \in MaximalRuns(g, horizontal) : r[3] - r[2] + 1 >= 3 }
    IN  /\ \A r \in long :
              Cardinality({ i \in lines : IsLineOfRun(g, ret[i], r, horizontal) }) = 1
        /\ \A i \in lines : \E r \in long : IsLineOfRun(g, ret[i], r, horizontal)

\* C28: detectPatterns reports exactly one horizontal_line for every maximal
\* run of three or more equal non-background cells of a row and exactly one
\* vertical_line for every such run of a column, each with the run's cells,
\* the run's colour and confidence 0.7; shorter runs and runs of the
\* background are not reported.
C28_LinesAreMaximalRuns ==
    call.op = "detectPatterns" =>
        /\ LinesAreLongRuns(grid, "horizontal_line", TRUE)
        /\ LinesAreLongRuns(grid, "vertical_line", FALSE)

\* C28: a row holds a run of exactly three cells beside a cell of another
\* colour, a column holds a run of four, and both were reported
C28_Witness ==
    /\ call.op = "detectPatterns"
    /\ grid.width = 4
    /\ \E r \in MaximalRuns(grid, TRUE) :
          /\ r[3] - r[2] + 1 = 3
          /\ \E i \in DOMAIN ret :
                ret[i].type = "horizontal_line" /\ Len(ret[i].positions) = 3
    /\ \E r \in MaximalRuns(grid, FALSE) :
          /\ r[3] - r[2] + 1 = 4
          /\ \E i \in DOMAIN ret :
                ret[i].type = "vertical_line" /\ Len(ret[i].positions) = 4

\* C28: the first row holds a run of two cells and no longer one, and no
\* horizontal line was reported in it
C28_WitnessShortRun ==
    /\ call.op = "detectPatterns"
    /\ \E r \in MaximalRuns(grid, TRUE) : r[1] = 0 /\ r[3] - r[2] + 1 = 2
    /\ \A i \in DOMAIN ret :
          ret[i].type = "horizontal_line" => \A c \in Listed(ret[i]) : c[2] # 0

\* g is a 4x4 grid tiled by one 2x2 block
IsTiled4x4(g) ==
    /\ g.width = 4 /\ g.height = 4
    /\ \A x \in 0..3, y \in 0..3 : g.data[y][x] = g.data[y % 2][x % 2]

\* C9: a 4x4 grid tiled by one 2x2 block gets a repetition_2x2 pattern that lists
\* all 16 cells of the tile instances at (0,0), (2,0), (0,2), (2,2); and for every
\* block size b from 2 to min(width,height)/2 exactly one pattern is reported per
\* window content that occurs at two or more offsets (listing the cells of exactly
\* those windows), none for a content that occurs once, and none for another size.
C9_RepetitionsReported ==
    call.op = "detectPatterns" =>
        LET g == grid
            maxBlock == Min(g.width, g.height) \div 2
            reps(b) == { i \in DOMAIN ret : ret[i].type = RepetitionTag(b) }
            same(b, o) == { q \in WindowOffsets(g, b) : SameWindow(g, b, o, q) }
            cellsOf(b, o) == UNION { WindowCells(q, b) : q \in same(b, o) }
        IN  /\ IsTiled4x4(g) =>
                \E i \in DOMAIN ret :
                    /\ ret[i].type = "repetition_2x2"
                    /\ UNION { WindowCells(o, 2) : o \in {<<0, 0>>, <<2, 0>>, <<0, 2>>, <<2, 2>>} }
                         \subseteq Listed(ret[i])
            /\ \A i \in DOMAIN ret :
                 ret[i].type \notin NonRepetitionTags =>
                    \E b \in 2..maxBlock : ret[i].type = RepetitionTag(b)
            /\ \A b \in 2..maxBlock :
                 /\ \A o \in WindowOffsets(g, b) :
                      Cardinality({ i \in reps(b) : Listed(ret[i]) = cellsOf(b, o)
                                      /\ ret[i].positions[1] \in same(b, o) })
                        = IF Cardinality(same(b, o)) >= 2 THEN 1 ELSE 0
                 /\ \A i \in reps(b) :
                      \E o \in WindowOffsets(g, b) :
                          /\ ret[i].positions[1] = o
                          /\ Listed(ret[i]) = cellsOf(b, o)

\* C9 witness: a 4x4 grid tiled by a block of two colours has been analysed
C9_Witness ==
    /\ call.op = "detectPatterns"
    /\ IsTiled4x4(grid)
    /\ grid.data[0][0] # grid.data[0][1]
    /\ \E i \in DOMAIN ret : ret[i].type = "repetition_2x2" /\ Len(ret[i].positions) = 16

\* C11: every pattern detectPatterns returns has a confidence in [0, 1]
\* (confidences are kept in hundredths), repetition patterns included.
C11_ConfidenceInUnitInterval ==
    call.op = "detectPatterns" =>
        \A i \in DOMAIN ret : ret[i].confidence >= 0 /\ ret[i].confidence <= 100

\* what does hold of C11: every pattern other than a repetition has a
\* confidence in [0, 1], and a repetition pattern of n windows has 0.6 + 0.1 n
C11_ConfidenceByKind ==
    call.op = "detectPatterns" =>
        \A i \in DOMAIN ret :
            IF ret[i].type \in NonRepetitionTags
            THEN ret[i].confidence >= 0 /\ ret[i].confidence <= 100
            ELSE \E b \in 2..3 :
                    /\ ret[i].type = RepetitionTag(b)
                    /\ ret[i].confidence * (b * b) = 60 * (b * b) + 10 * Len(ret[i].positions)

\* a window content found at five or more offsets has been reported
C11_ManyWindows ==
    /\ call.op = "detectPatterns"
    /\ \E i \in DOMAIN ret :
          ret[i].type = "repetition_2x2" /\ Len(ret[i].positions) >= 5 * 4

\* ------------------------------------------------------------------------
\* Standalone solver: training pairs are collected, then a test input is solved
\* ------------------------------------------------------------------------
\* ARCTestGenerator::generateTestInputs
test1 == setCell(ARCGrid(3, 3), 1, 1, 1)
test2 == [width |-> 4, height |-> 4,
          data |-> [y \in 0..3 |-> [x \in 0..3 |->
                      IF x = 0 \/ x = 3 \/ y = 0 \/ y = 3 THEN 2 ELSE 0]]]
test3 == [width |-> 5, height |-> 5,
          data |-> [y \in 0..4 |-> [x \in 0..4 |-> IF y = 2 THEN 3 ELSE 0]]]

\* ARCTestGenerator::generateTestOutputs
out1 == setCell(ARCGrid(3, 3), 1, 1, 2)
out2 == [width |-> 4, height |-> 4, data |-> [y \in 0..3 |-> [x \in 0..3 |-> 2]]]
out3 == [width |-> 5, height |-> 5,
         data |-> [y \in 0..4 |-> [x \in 0..4 |-> IF y = 2 \/ x = 2 THEN 3 ELSE 0]]]

\* a grid given by its rows
GridOf(rows) ==
    [width |-> Len(rows[1]), height |-> Len(rows),
     data |-> [y \in 0..(Len(rows) - 1) |-> [x \in 0..(Len(rows[1]) - 1) |-> rows[y + 1][x + 1]]]]

\* the training pairs the caller chooses from: the generator's three pairs, recolourings
\* (1 to 2 beside a cell that is 2 already, 1 to 2 with a change of the pattern count,
\* 1 to background) and pairs that change the size
ExamplePool ==
    { <<test1, out1>>, <<test2, out2>>, <<test3, out3>>,
      <<GridOf(<< <<1, 0, 0>>, <<0, 0, 0>>, <<0, 0, 2>> >>),
        GridOf(<< <<2, 0, 0>>, <<0, 0, 0>>, <<0, 0, 2>> >>)>>,
      <<GridOf(<< <<1, 2, 2>>, <<0, 0, 0>> >>), GridOf(<< <<2, 2, 2>>, <<0, 0, 0>> >>)>>,
      <<test1, ARCGrid(3, 3)>>,
      <<GridOf(<< <<1, 2>>, <<0, 1>> >>), ARCGrid(3, 4)>>,
      <<ARCGrid(1, 1), ARCGrid(2, 2)>> }

\* the test inputs: 3x3 grids with at most one coloured cell (a corner, the centre or
\* an edge), the generator's inputs, a grid with a square of the last colour, and
\* the grid without cells
TestInputs ==
    { ARCGrid(3, 3) }
    \cup { setCell(ARCGrid(3, 3), p[1], p[2], v) :
             p \in {<<0, 0>>, <<1, 1>>, <<2, 1>>}, v \in Colors }
    \cup { test1, test2, test3 }
    \cup { GridOf(<< <<9, 9, 0>>, <<9, 9, 0>>, <<0, 0, 0>> >>), ARCGrid(0, 0) }

SolveInit ==
    /\ grid \in TestInputs
    /\ fgrid = FARCGrid(0, 0)
    /\ before = ARCGrid(0, 0)
    /\ call = NoCall
    /\ ret = ARCGrid(0, 0)
    /\ SolverIdle
    /\ EngineIdle

\* main: trainInputs.push_back(...); trainOutputs.push_back(...)
PushExample ==
    /\ call.op # "solveTransformation"
    /\ Len(trainInputs) < MaxTrain
    /\ \E e \in ExamplePool :
         /\ trainInputs' = Append(trainInputs, e[1])
         /\ trainOutputs' = Append(trainOutputs, e[2])
    /\ UNCHANGED <<gridVars, call, ret, printedRule, engineVars>>

NEBULATransformationEngine_solveTransformation ==
    /\ call.op # "solveTransformation"
    /\ call' = [call EXCEPT !.op = "solveTransformation", !.kind = "NEBULATransformationEngine"]
    /\ printedRule' = DominantRuleOf(trainInputs, trainOutputs)
    /\ ret' = solveTransformation(trainInputs, trainOutputs, grid)
    /\ UNCHANGED <<gridVars, trainInputs, trainOutputs, engineVars>>

SolveNext ==
    \/ PushExample
    \/ NEBULATransformationEngine_solveTransformation

SpecSolve == SolveInit /\ [][SolveNext]_vars

\* out is inp with every cell of colour c1 turned into c2 and nothing else changed
IsRecolouring(inp, out, c1, c2) ==
    /\ out.width = inp.width /\ out.height = inp.height
    /\ \A y \in 0..(inp.height - 1) : \A x \in 0..(inp.width - 1) :
         out.data[y][x] = IF inp.data[y][x] = c1 THEN c2 ELSE inp.data[y][x]

\* colour c occurs in g
Occurs(g, c) == \E y \in 0..(g.height - 1) : \E x \in 0..(g.width - 1) : g.data[y][x] = c

\* every training pair turns the cells of colour c1, which the input has, into c2
AllRecolour(c1, c2) ==
    /\ trainInputs # <<>>
    /\ \A i \in DOMAIN trainInputs :
         /\ Occurs(trainInputs[i], c1)
         /\ IsRecolouring(trainInputs[i], trainOutputs[i], c1, c2)

\* C6: when every training pair differs only in that its cells of colour c1 are c2 in
\* the output, solveTransformation selects color_change and returns the test input
\* with every c1 cell replaced by c2 and every other cell unchanged; with two 3x3
\* examples whose cell (1,1) goes from 1 to 2, a test grid with (0,0)=1 yields (0,0)=2.
C6_ColorChangeSolved ==
    call.op = "solveTransformation" =>
        /\ \A c1 \in 0..9, c2 \in 0..9 :
              (c1 # c2 /\ AllRecolour(c1, c2)) =>
                  /\ printedRule = "color_change"
                  /\ IsRecolouring(grid, ret, c1, c2)
        /\ (trainInputs = <<test1, test1>> /\ trainOutputs = <<out1, out1>>
              /\ grid.width = 3 /\ grid.height = 3 /\ grid.data[0][0] = 1)
             => ret.data[0][0] = 2

\* C6 witness: the scenario of the two 3x3 examples and the test grid with (0,0)=1
C6_Witness ==
    /\ call.op = "solveTransformation"
    /\ trainInputs = <<test1, test1>> /\ trainOutputs = <<out1, out1>>
    /\ grid = setCell(ARCGrid(3, 3), 0, 0, 1)
    /\ printedRule = "color_change"

\* the 4x4 grid with a hollow border of colour 2
IsBordered(g) ==
    /\ g.width = 4 /\ g.height = 4
    /\ \A x \in 0..3, y \in 0..3 :
         g.data[y][x] = IF x \in {0, 3} \/ y \in {0, 3} THEN 2 ELSE 0

\* C7: when every training pair shows the 4x4 grid with a hollow border of colour 2
\* and its output with the interior filled with 2, solveTransformation on a 4x4 grid
\* with a colour-2 border and a background interior returns a grid whose interior
\* cells are all 2 and whose border cells are still 2.
C7_BorderFilled ==
    (/\ call.op = "solveTransformation"
     /\ trainInputs # <<>>
     /\ \A i \in DOMAIN trainInputs :
          IsBordered(trainInputs[i]) /\ trainOutputs[i] = out2
     /\ IsBordered(grid))
    => /\ ret.width = 4 /\ ret.height = 4
       /\ \A x \in 0..3, y \in 0..3 : ret.data[y][x] = 2

\* C7 witness: the bordered grid has been solved from two bordered training pairs
C7_Witness ==
    /\ call.op = "solveTransformation"
    /\ Len(trainInputs) = 2
    /\ \A i \in DOMAIN trainInputs :
          IsBordered(trainInputs[i]) /\ trainOutputs[i] = out2
    /\ IsBordered(grid)

\* C13: solveTransformation called with no training examples selects the rule
\* "copy" and returns a grid with the width, the height and the cells of the
\* test input, and the test input is left as it was.
C13_NoExamplesCopy ==
    [][ (call'.op = "solveTransformation" /\ call.op # "solveTransformation"
         /\ trainInputs = <<>> /\ trainOutputs = <<>>)
        => /\ printedRule' = "copy"
           /\ ret'.width = grid.width
           /\ ret'.height = grid.height
           /\ \A y \in 0..(grid.height - 1) : \A x \in 0..(grid.width - 1) :
                 ret'.data[y][x] = grid.data[y][x]
           /\ grid' = grid ]_vars

\* solveTransformation has run with no example on a grid with a coloured cell
C13_Witness ==
    /\ call.op = "solveTransformation"
    /\ trainInputs = <<>> /\ trainOutputs = <<>>
    /\ \E y \in 0..(grid.height - 1) : \E x \in 0..(grid.width - 1) : grid.data[y][x] > 0
    /\ printedRule = "copy"
    /\ ret = grid

\* C26: every cell of the grid solveTransformation returns holds a colour
\* 0..9, whichever rule was selected: never the -1 that getCell returns
\* outside the grid, never more than 9.
C26_ResultCellsAreColours ==
    call.op = "solveTransformation" =>
        \A y \in 0..(ret.height - 1) : \A x \in 0..(ret.width - 1) :
            ret.data[y][x] \in 0..9

\* C26, the part that holds: under the rules copy and color_change every
\* cell of the result holds a colour 0..9.
C26_CopiedOrRecolouredAreColours ==
    (call.op = "solveTransformation" /\ printedRule \in { "copy", "color_change" }) =>
        \A y \in 0..(ret.height - 1) : \A x \in 0..(ret.width - 1) :
            ret.data[y][x] \in 0..9

\* C26: pattern_change was selected and the corners of a rectangle of
\* colour 9 in the test input hold 10 in the result
C26_RectangleOfNineHoldsTen ==
    /\ call.op = "solveTransformation"
    /\ printedRule = "pattern_change"
    /\ grid.width = 3 /\ grid.height = 3
    /\ \A y \in 0..2 : \A x \in 0..2 : grid.data[y][x] \in 0..9
    /\ grid.data[0][0] = 9 /\ ret.data[0][0] = 10

\* C26: size_change was selected, the test input has no cell, and the cells
\* of the result hold -1
C26_EmptyInputScaledHoldsSentinel ==
    /\ call.op = "solveTransformation"
    /\ printedRule = "size_change"
    /\ grid.width = 0
    /\ ret.width > 0 /\ ret.height > 0
    /\ ret.data[0][0] = -1

\* ------------------------------------------------------------------------
\* Rule discovery: a task is parsed, FTransformationEngine::DiscoverRules runs
\* on its training examples, and ANebulaARCSolver::ApplyBestRule applies the
\* returned rules to a grid the examples do not contain
\* ------------------------------------------------------------------------
\* training pairs: translations by (1,0), (0,-1) and (1,1); recolourings 1 -> 2;
\* an unchanged pair; a pair joined into one component; a mirrored pair
EnginePool ==
    { FARCExample(FGrid(<< <<1, 0, 0>> >>), FGrid(<< <<0, 1, 0>> >>)),
      FARCExample(FGrid(<< <<2, 0, 0>> >>), FGrid(<< <<0, 2, 0>> >>)),
      FARCExample(FGrid(<< <<0, 0>>, <<1, 0>> >>), FGrid(<< <<1, 0>>, <<0, 0>> >>)),
      FARCExample(FGrid(<< <<1, 0>>, <<0, 0>> >>), FGrid(<< <<0, 0>>, <<0, 1>> >>)),
      FARCExample(FGrid(<< <<1, 0, 2>> >>), FGrid(<< <<2, 0, 2>> >>)),
      FARCExample(FGrid(<< <<1, 1>>, <<0, 2>> >>), FGrid(<< <<2, 2>>, <<0, 2>> >>)),
      FARCExample(FGrid(<< <<0, 0>> >>), FGrid(<< <<0, 0>> >>)),
      FARCExample(FGrid(<< <<1, 0, 1>> >>), FGrid(<< <<1, 1, 1>> >>)),
      FARCExample(FGrid(<< <<1, 0>> >>), FGrid(<< <<1, 1>> >>)) }

\* grids handed to ApplyBestRule
HeldOutInputs ==
    { FGrid(<< <<0, 1, 0>> >>),
      FGrid(<< <<2, 1, 0>> >>),
      FGrid(<< <<1, 0, 1>> >>),
      FGrid(<< <<0, 0>>, <<2, 1>> >>),
      FGrid(<< <<1, 2>>, <<0, 0>> >>),
      FARCGrid(0, 0) }

EngineInit ==
    /\ grid = ARCGrid(0, 0)
    /\ fgrid = FARCGrid(0, 0)
    /\ before = ARCGrid(0, 0)
    /\ call = NoCall
    /\ ret = FARCGrid(0, 0)
    /\ SolverIdle
    /\ EngineIdle

\* ParseTaskJSON: Task.TrainingExamples.Add(Example)
ParseTaskJSON_AddTrainingExample ==
    /\ call.op = "none"
    /\ Len(task.TrainingExamples) < MaxTrain
    /\ \E Example \in EnginePool :
         task' = [task EXCEPT !.TrainingExamples = Append(@, Example)]
    /\ UNCHANGED <<gridVars, call, ret, solverVars, foundRules, candidates, clusters, runVars, simVars>>

\* TransformEngine.DiscoverRules(CurrentTask.TrainingExamples)
FTransformationEngine_DiscoverRules ==
    /\ call.op = "none"
    /\ \E unseen \in UnseenDiscoveries(task.TrainingExamples) :
         /\ candidates' = CandidateRules(task.TrainingExamples, unseen)
         /\ foundRules' \in DiscoverRules(task.TrainingExamples, unseen)
    /\ call' = [NoCall EXCEPT !.op = "DiscoverRules", !.kind = "FTransformationEngine"]
    /\ UNCHANGED <<gridVars, ret, solverVars, task, clusters, runVars, simVars>>

\* ApplyBestRule(Input, Rules) with the rules just discovered or extracted
ANebulaARCSolver_ApplyBestRule ==
    /\ call.op \in { "DiscoverRules", "EvolveTransformationRules" }
    /\ \E Input \in HeldOutInputs :
         /\ fgrid' = Input
         /\ ret' = ApplyBestRule(Input, foundRules)
    /\ call' = [NoCall EXCEPT !.op = "ApplyBestRule", !.kind = "ANebulaARCSolver"]
    /\ UNCHANGED <<grid, before, solverVars, engineVars>>

EngineNext ==
    \/ ParseTaskJSON_AddTrainingExample
    \/ FTransformationEngine_DiscoverRules
    \/ ANebulaARCSolver_ApplyBestRule

SpecEngine == EngineInit /\ [][EngineNext]_vars

\* the training examples of the task
TrainingExamples == task.TrainingExamples

\* number of training examples whose output equals the rule applied to the input
ExactMatches(Rule) ==
    Cardinality({ i \in 1..Len(TrainingExamples) :
                    LET Predicted == Apply(Rule, TrainingExamples[i].Input)
                        Expected == TrainingExamples[i].Output
                    IN  /\ Predicted.Width = Expected.Width
                        /\ Predicted.Height = Expected.Height
                        /\ Predicted.Data = Expected.Data })

\* a candidate as it would stand in the list after validation
Validated(Rule) ==
    [Rule EXCEPT !.Confidence = Ratio(ExactMatches(Rule), Len(TrainingExamples))]

Occurrences(seq, e) == Cardinality({ i \in 1..Len(seq) : seq[i] = e })

\* the confidences the discoverers assign: 0.7, 0.75, 0.8, 0.85, 0.9
DiscoveryConfidences ==
    { Ratio(7, 10), Ratio(75, 100), Ratio(8, 10), Ratio(85, 100), Ratio(9, 10) }

ShiftedBy(G, dx, dy) ==
    [Width |-> G.Width, Height |-> G.Height,
     Data |-> [Y \in 0..(G.Height - 1) |-> [X \in 0..(G.Width - 1) |->
                 IF X - dx \in 0..(G.Width - 1) /\ Y - dy \in 0..(G.Height - 1)
                 THEN G.Data[Y - dy][X - dx]
                 ELSE 0]]]

\* the output is the input translated by (dx, dy): the input holds an object
\* and none of its cells is pushed off the grid
IsTranslatedPair(Example, dx, dy) ==
    /\ \E c \in FCells(Example.Input) : Example.Input.Data[c[2]][c[1]] # 0
    /\ \A c \in FCells(Example.Input) :
          Example.Input.Data[c[2]][c[1]] # 0 =>
              /\ c[1] + dx \in 0..(Example.Input.Width - 1)
              /\ c[2] + dy \in 0..(Example.Input.Height - 1)
    /\ Example.Output = ShiftedBy(Example.Input, dx, dy)

Offsets == { d \in (-MaxDim..MaxDim) \X (-MaxDim..MaxDim) : d # <<0, 0>> }

\* every candidate came from a discoverer whose body is in the sources
OnlySourceDiscoverers ==
    \A j \in 1..Len(candidates) :
        candidates[j].Type \in { "Translation", "ColorMapping", "Symmetry", "Connectivity" }

\* C4: when every training pair (one or more) is its input translated by the
\* same offset (dx, dy), no object pushed off the grid, DiscoverRules returns
\* a Translation rule of confidence 1 that reproduces every training output,
\* and ApplyBestRule over the returned rules turns a held-out grid into that
\* grid shifted by (dx, dy).  (Stated for candidates of the discoverers in
\* the sources.)
C4_TranslationSolved ==
    \A d \in Offsets :
        ( /\ call.op \in { "DiscoverRules", "ApplyBestRule" }
          /\ OnlySourceDiscoverers
          /\ Len(TrainingExamples) >= 1
          /\ \A i \in 1..Len(TrainingExamples) :
                IsTranslatedPair(TrainingExamples[i], d[1], d[2]) )
        => /\ \E i \in 1..Len(foundRules) :
                /\ foundRules[i].Type = "Translation"
                /\ RatioEq(foundRules[i].Confidence, Ratio(1, 1))
                /\ \A k \in 1..Len(TrainingExamples) :
                      Apply(foundRules[i], TrainingExamples[k].Input)
                        = TrainingExamples[k].Output
           /\ call.op = "ApplyBestRule" => ret = ShiftedBy(fgrid, d[1], d[2])

\* what does hold of C4: the Translation rule is discovered with confidence 1,
\* and with a single training pair the held-out grid is shifted by (dx, dy)
C4_SinglePairSolved ==
    \A d \in Offsets :
        ( /\ call.op \in { "DiscoverRules", "ApplyBestRule" }
          /\ OnlySourceDiscoverers
          /\ Len(TrainingExamples) >= 1
          /\ \A i \in 1..Len(TrainingExamples) :
                IsTranslatedPair(TrainingExamples[i], d[1], d[2]) )
        => /\ \E i \in 1..Len(foundRules) :
                /\ foundRules[i].Type = "Translation"
                /\ RatioEq(foundRules[i].Confidence, Ratio(1, 1))
                /\ \A k \in 1..Len(TrainingExamples) :
                      Apply(foundRules[i], TrainingExamples[k].Input)
                        = TrainingExamples[k].Output
           /\ (call.op = "ApplyBestRule" /\ Len(TrainingExamples) = 1)
                => ret = ShiftedBy(fgrid, d[1], d[2])

\* the output has the size of the input, every cell of colour c1 has become
\* c2 and no other cell has changed
IsRecolouredPair(Example, c1, c2) ==
    /\ Example.Output.Width = Example.Input.Width
    /\ Example.Output.Height = Example.Input.Height
    /\ \A c \in FCells(Example.Input) :
          Example.Output.Data[c[2]][c[1]] =
              IF Example.Input.Data[c[2]][c[1]] = c1 THEN c2 ELSE Example.Input.Data[c[2]][c[1]]

\* some training input has a cell of the colour
OccursInTraining(c1) ==
    \E i \in 1..Len(TrainingExamples) : \E c \in FCells(TrainingExamples[i].Input) :
        TrainingExamples[i].Input.Data[c[2]][c[1]] = c1

\* the grids a discovered rule is tried on
ProbeGrids == HeldOutInputs \cup { TrainingExamples[i].Input : i \in 1..Len(TrainingExamples) }

\* C5: when every training pair has equal dimensions, every cell of colour c1
\* (there is one) has become c2, c1 # c2, and no other cell has changed,
\* DiscoverRules returns a ColorMapping rule whose map is exactly {c1 -> c2}
\* with confidence 1; applied to any grid the rule turns every c1 cell into c2
\* and leaves the other cells, the width and the height as they were.
C5_ColorMappingDiscovered ==
    \A c1 \in 0..9 : \A c2 \in 0..9 :
        ( /\ call.op = "DiscoverRules"
          /\ c1 # c2
          /\ OccursInTraining(c1)
          /\ \A i \in 1..Len(TrainingExamples) : IsRecolouredPair(TrainingExamples[i], c1, c2) )
        => \E i \in 1..Len(foundRules) :
              /\ foundRules[i].Type = "ColorMapping"
              /\ DOMAIN foundRules[i].ColorMap = { c1 }
              /\ foundRules[i].ColorMap[c1] = c2
              /\ RatioEq(foundRules[i].Confidence, Ratio(1, 1))
              /\ \A G \in ProbeGrids :
                    LET Result == Apply(foundRules[i], G)
                    IN  /\ Result.Width = G.Width
                        /\ Result.Height = G.Height
                        /\ \A c \in FCells(G) :
                              Result.Data[c[2]][c[1]] =
                                  IF G.Data[c[2]][c[1]] = c1 THEN c2 ELSE G.Data[c[2]][c[1]]

\* rules were discovered from two pairs recoloured 1 -> 2, one of them with
\* cells of a third colour, and a probe grid holds a cell of colour 1
C5_Witness ==
    /\ call.op = "DiscoverRules"
    /\ Len(TrainingExamples) = 2
    /\ TrainingExamples[1] # TrainingExamples[2]
    /\ \A i \in 1..2 : IsRecolouredPair(TrainingExamples[i], 1, 2)
    /\ OccursInTraining(1)
    /\ \E i \in 1..Len(foundRules) :
          foundRules[i].Type = "ColorMapping" /\ DOMAIN foundRules[i].ColorMap = { 1 }

\* ------------------------------------------------------------------------
\* Rule extraction: the core reports active clusters,
\* ANebulaARCSolver::EvolveTransformationRules turns them into rules, and
\* ApplyBestRule applies the rules to a grid
\* ------------------------------------------------------------------------
\* clusters the core may report: velocity 0.11 (a translation of 1.1 cells;
\* coherence 0.8 and 0.7), turning with a two-entry spectrum, moving with two
\* spectrum entries of the same source colour, nearly at rest, and velocity
\* 0.15 (a translation of 1.5 cells)
ClusterPool ==
    { FNeuronCluster(<<11, 0>>, 0, <<>>, Ratio(8, 10)),
      FNeuronCluster(<<11, 0>>, 0, <<>>, Ratio(7, 10)),
      FNeuronCluster(<<0, 0>>, 20, << <<450, 650>>, <<700, 700>> >>, Ratio(1, 1)),
      FNeuronCluster(<<0, 11>>, 0, << <<452, 650>>, <<450, 550>> >>, Ratio(9, 10)),
      FNeuronCluster(<<5, 0>>, 5, << <<450, 650>> >>, Ratio(1, 2)),
      FNeuronCluster(<<15, 0>>, 0, <<>>, Ratio(6, 10)) }

\* NebulaCore->EvolveFrame: one more cluster has become active
NebulaCore_EvolveFrame ==
    /\ call.op = "none"
    /\ Len(clusters) < MaxClusters
    /\ \E Cluster \in ClusterPool : clusters' = Append(clusters, Cluster)
    /\ UNCHANGED <<gridVars, call, ret, solverVars, task, foundRules, candidates, runVars, simVars>>

ANebulaARCSolver_EvolveTransformationRules ==
    /\ call.op = "none"
    /\ foundRules' = EvolveTransformationRules(clusters)
    /\ call' = [NoCall EXCEPT !.op = "EvolveTransformationRules", !.kind = "ANebulaARCSolver"]
    /\ UNCHANGED <<gridVars, ret, solverVars, task, candidates, clusters, runVars, simVars>>

ExtractNext ==
    \/ NebulaCore_EvolveFrame
    \/ ANebulaARCSolver_EvolveTransformationRules
    \/ ANebulaARCSolver_ApplyBestRule

SpecExtract == EngineInit /\ [][ExtractNext]_vars

\* the rule's confidence is strictly greater than 0.7
Exceeds07(Rule) == 10 * Rule.Confidence[1] > 7 * Rule.Confidence[2]

\* C10: ApplyBestRule returns its input when the rule list is empty; else the
\* result is rule 0 applied to the input, then rule 1 applied to that exactly
\* when it exists and its confidence is strictly above 0.7, then rule 2
\* likewise; no further rule is applied.
C10_ApplyBestRuleChain ==
    call.op = "ApplyBestRule" =>
        LET Input == fgrid
            Rules == foundRules
            after0 == Apply(Rules[1], Input)
            after1 == IF Len(Rules) >= 2 /\ Exceeds07(Rules[2])
                      THEN Apply(Rules[2], after0) ELSE after0
            after2 == IF Len(Rules) >= 3 /\ Exceeds07(Rules[3])
                      THEN Apply(Rules[3], after1) ELSE after1
        IN  ret = IF Len(Rules) = 0 THEN Input ELSE after2

\* ApplyBestRule has run on four or more rules: rule 1 has confidence exactly
\* 0.7 and would have changed the grid, rule 2 was applied and changed it, and
\* rule 3, of confidence above 0.7, would change the result
C10_Witness ==
    /\ call.op = "ApplyBestRule"
    /\ Len(foundRules) >= 4
    /\ RatioEq(foundRules[2].Confidence, Ratio(7, 10))
    /\ Apply(foundRules[2], Apply(foundRules[1], fgrid)) # Apply(foundRules[1], fgrid)
    /\ Exceeds07(foundRules[3])
    /\ ret = Apply(foundRules[3], Apply(foundRules[1], fgrid))
    /\ ret # Apply(foundRules[1], fgrid)
    /\ Exceeds07(foundRules[4])
    /\ Apply(foundRules[4], ret) # ret

\* ApplyBestRule has run on an empty rule list and a grid with cells
C10_WitnessEmpty ==
    /\ call.op = "ApplyBestRule"
    /\ foundRules = <<>>
    /\ fgrid.Width > 0
    /\ ret = fgrid

\* the confidences of a rule list never rise from one rule to the next
ByConfidence(Rules) ==
    \A i \in 1..(Len(Rules) - 1) : ~RatioLess(Rules[i].Confidence, Rules[i + 1].Confidence)

\* C19: every rule list handed to ApplyBestRule is ordered by non-increasing
\* confidence, so that the rule applied first, Rules[0], has the highest
\* confidence of the list.
C19_RulesByConfidence ==
    call.op = "ApplyBestRule" =>
        /\ ByConfidence(foundRules)
        /\ \A i \in 1..Len(foundRules) :
              ~RatioLess(foundRules[1].Confidence, foundRules[i].Confidence)

\* C19: ApplyBestRule has run on the rules extracted from a cluster of
\* coherence 0.7 followed by one of coherence 0.8; the rule applied first is
\* the one of confidence 0.7
C19_LowerConfidenceFirst ==
    /\ call.op = "ApplyBestRule"
    /\ foundRules = EvolveTransformationRules(clusters)
    /\ Len(foundRules) = 2
    /\ RatioEq(foundRules[1].Confidence, Ratio(7, 10))
    /\ RatioEq(foundRules[2].Confidence, Ratio(8, 10))
    /\ ret = Apply(foundRules[2], Apply(foundRules[1], fgrid))

\* ------------------------------------------------------------------------
\* ANebulaARCSolver::SolveTask, run twice: `run` and `twin` are two executions
\* on task texts with the same training pairs and as many test examples,
\* whose test grids may differ.  The core is deterministic in what has been
\* injected into it (same seed): after equal injections the two executions
\* see equal clusters in every frame.
\* ------------------------------------------------------------------------
MaxActive == 1

\* "train" members of a task text
TrainTexts ==
    { <<>>,
      << [input |-> << <<1, 0, 0>> >>, output |-> << <<0, 1, 0>> >>] >>,
      << [input |-> << <<1, 0, 0>> >>, output |-> << <<0, 1, 0>> >>],
         [input |-> << <<2, 0, 0>> >>, output |-> << <<0, 0, 2>> >>] >>,
      << [input |-> << <<1, 0, 2>> >>, output |-> << <<2, 0, 2>> >>] >>,
      << [input |-> << <<0, 1>>, <<0, 0>> >>, output |-> << <<0, 1>>, <<0, 0>> >>] >> }

\* "test" members of a task text: no test example, or one
TestTexts ==
    { <<>>,
      << [input |-> << <<0, 1, 0>> >>, output |-> << <<0, 0, 1>> >>] >>,
      << [input |-> <<>>, output |-> << <<0, 2, 0>> >>] >> }

\* clusters the core may report: velocity 0.11 (the oracle reads 11 cells,
\* rule extraction 1.1 cells), a spectrum that turns colour 1 into colour 2,
\* and velocity 0.01 with one turn per unit time (the oracle reads 1 cell and
\* a quarter turn, rule extraction a rotation)
ActivePool ==
    { FNeuronCluster(<<11, 0>>, 0, <<>>, Ratio(1, 1)),
      FNeuronCluster(<<0, 0>>, 0, << <<450, 650>>, <<700, 700>> >>, Ratio(1, 1)),
      FNeuronCluster(<<1, 0>>, 1000, <<>>, Ratio(1, 2)) }

ActiveClusterLists == UNION { [1..n -> ActivePool] : n \in 0..MaxActive }

Evolving(r) == r.pc = "evolving" /\ r.Cycle < EvolutionCycles
LoopDone(r) == r.pc = "evolving" /\ r.Cycle >= EvolutionCycles

\* SolveTask(TaskJSON) is called in both executions
ANebulaARCSolver_SolveTask ==
    /\ call.op = "none"
    /\ run.pc = "idle" /\ twin.pc = "idle"
    /\ \E train \in TrainTexts, test \in TestTexts, twinTest \in TestTexts :
         /\ Len(twinTest) = Len(test)
         /\ run' = SolveTask_Parsed(run, [train |-> train, test |-> test])
         /\ twin' = SolveTask_Parsed(twin, [train |-> train, test |-> twinTest])
    /\ UNCHANGED <<gridVars, call, ret, solverVars, task, foundRules, candidates, clusters, simVars>>

\* one pass of the evolution loop in every execution still in it
ANebulaARCSolver_SolveTask_Cycle ==
    /\ Evolving(run) \/ Evolving(twin)
    /\ \E Clusters \in ActiveClusterLists :
         \E twinClusters \in (IF run.injected = twin.injected
                               THEN { Clusters } ELSE ActiveClusterLists) :
            /\ run' = IF Evolving(run) THEN SolveTask_Cycle(run, Clusters) ELSE run
            /\ twin' = IF Evolving(twin) THEN SolveTask_Cycle(twin, twinClusters) ELSE twin
    /\ UNCHANGED <<gridVars, call, ret, solverVars, task, foundRules, candidates, clusters, simVars>>

\* the fallback in every execution that has left the loop
ANebulaARCSolver_SolveTask_Fallback ==
    /\ LoopDone(run) \/ LoopDone(twin)
    /\ ~Evolving(run) /\ ~Evolving(twin)
    /\ \E unseen \in UnseenDiscoveries(run.task.TrainingExamples) :
         \E Rules \in DiscoverRules(run.task.TrainingExamples, unseen) :
            \E twinUnseen \in UnseenDiscoveries(twin.task.TrainingExamples) :
               \E twinRules \in (IF run.task.TrainingExamples = twin.task.TrainingExamples
                                  THEN { Rules }
                                  ELSE DiscoverRules(twin.task.TrainingExamples, twinUnseen)) :
                  /\ run' = IF LoopDone(run) THEN SolveTask_Fallback(run, Rules) ELSE run
                  /\ twin' = IF LoopDone(twin) THEN SolveTask_Fallback(twin, twinRules) ELSE twin
    /\ UNCHANGED <<gridVars, call, ret, solverVars, task, foundRules, candidates, clusters, simVars>>

TaskNext ==
    \/ ANebulaARCSolver_SolveTask
    \/ ANebulaARCSolver_SolveTask_Cycle
    \/ ANebulaARCSolver_SolveTask_Fallback

SpecTask == EngineInit /\ [][TaskNext]_vars

\* the two executions were given the same training pairs and as many test
\* examples, and the core reported the same clusters in the last frame
SameButTestGrids ==
    /\ run.json.train = twin.json.train
    /\ Len(run.json.test) = Len(twin.json.test)
    /\ run.Clusters = twin.Clusters

C1_WitnessRejected ==
    /\ Len(run.json.train) >= 1
    /\ Len(run.json.test) = 1
    /\ run.json.test[1] # twin.json.test[1]
    /\ run.pc = "evolving" /\ twin.pc = "evolving"
    /\ run.tested /\ ~run.bAllCorrect
    /\ run.Rules # <<>>
    /\ \E i \in 1..Len(run.validity) : run.validity[i][1] > 0

\* ApplyBestRule with the rules reproduces the output of every training example
ReproducesTraining(Task, Rules) ==
    \A i \in 1..Len(Task.TrainingExamples) :
        GridsMatch(ApplyBestRule(Task.TrainingExamples[i].Input, Rules),
                   Task.TrainingExamples[i].Output)

\* the rule lists DiscoverRules may return for the training examples
FallbackRules(Task) ==
    UNION { DiscoverRules(Task.TrainingExamples, unseen) :
              unseen \in UnseenDiscoveries(Task.TrainingExamples) }

\* what C18 says of one execution of SolveTask
ResultAsDecided(r) ==
    LET hasTest == Len(r.task.TestExamples) > 0
    IN  /\ r.pc = "returned" => r.via \in { "clusters", "fallback" }
        /\ r.via = "clusters" =>
              /\ r.pc = "returned"
              /\ r.Cycle % 10 = 0 /\ r.Cycle < EvolutionCycles
              /\ hasTest
              /\ r.Rules = EvolveTransformationRules(r.Clusters)
              /\ ReproducesTraining(r.task, r.Rules)
              /\ r.ret = ApplyBestRule(r.task.TestExamples[1].Input, r.Rules)
        /\ (r.pc = "evolving" /\ r.tested) =>
              /\ (r.Cycle - 1) % 10 = 0
              /\ r.Rules = EvolveTransformationRules(r.Clusters)
              /\ ~(ReproducesTraining(r.task, r.Rules) /\ hasTest)
        /\ (r.pc = "evolving" /\ ~r.tested /\ r.Cycle > 0) => (r.Cycle - 1) % 10 # 0
        /\ r.via = "fallback" =>
              /\ r.pc = "returned"
              /\ r.Cycle = EvolutionCycles
              /\ r.Rules \in FallbackRules(r.task)
              /\ r.ret = IF hasTest
                         THEN ApplyBestRule(r.task.TestExamples[1].Input, r.Rules)
                         ELSE FARCGrid(0, 0)
        /\ (r.pc = "returned" /\ ~hasTest) =>
              /\ r.via = "fallback"
              /\ r.ret = FARCGrid(0, 0)

\* C18: SolveTask returns a result built from rules extracted from the
\* clusters only in a cycle whose index is a multiple of 10, only when
\* ApplyBestRule with those rules reproduces every training output and a test
\* example exists; the loop goes on after an attempt only when that failed;
\* after EvolutionCycles cycles the result is ApplyBestRule with the rules of
\* DiscoverRules on the first test input, and a task without a test example
\* gets the empty 0x0 grid.
C18_ResultAsDecided == ResultAsDecided(run) /\ ResultAsDecided(twin)

\* C18: a result from cluster rules in cycle 10, after the attempt of cycle 0
\* had failed
C18_WitnessClusters ==
    /\ run.pc = "returned" /\ run.via = "clusters" /\ run.Cycle = 10
    /\ Len(run.task.TrainingExamples) >= 1
    /\ run.Rules # <<>>
    /\ run.ret # run.task.TestExamples[1].Input

\* C18: the fallback result of a task with a training pair and a test
\* example, all hundred cycles run
C18_WitnessFallback ==
    /\ run.pc = "returned" /\ run.via = "fallback" /\ run.Cycle = EvolutionCycles
    /\ Len(run.task.TrainingExamples) >= 1 /\ Len(run.task.TestExamples) = 1
    /\ run.Rules # <<>>

\* C18: the empty grid returned for a task with no test example
C18_WitnessNoTest ==
    /\ run.pc = "returned" /\ Len(run.task.TestExamples) = 0
    /\ Len(run.task.TrainingExamples) >= 1
    /\ run.ret = FARCGrid(0, 0)

\* ------------------------------------------------------------------------
\* Diversity maintenance: one ANebulaEmergent whose frames call
\* FDiversityController::UpdateSystemDynamics with the frame counter
\* ------------------------------------------------------------------------
MaxFrames == 2     \* frames evolved
SpeedLimit == 1000 \* the speed, in whole units, taken as the finite bound

\* the first two neurons of the array: a bright or a moderately bright one at
\* the origin, and a dim or bright one at the same point, at half the
\* inhibition radius or out of reach
DiversityNeurons ==
    { << FNeuronState(0, 0, l1, 100), FNeuronState(x2, 0, l2, 100) >> :
        l1 \in { 600, 10000 }, l2 \in { 10, 10000 }, x2 \in { 0, 250, 1000 } }

\* Neurons.Num(): the two neurons alone, or with 98 more out of reach
DiversityNums == { 2, 100 }

ThermalDraws == { <<-1, -1>>, <<1, 1>> }

\* RandomIndex: one of the two neurons or another one; the kick at the end
\* of its range; a spike of the largest factor or none
PerturbationPicks ==
    { [RandomIndex |-> i, RandomKick |-> 100, Spike |-> f] : i \in { 0, 1 }, f \in { 1, 5 } }
    \cup { [RandomIndex |-> 99, RandomKick |-> 100, Spike |-> 1] }

DynamicsDraws(Num) ==
    [thermal : [1..2 -> ThermalDraws],
     ClampOfNaN : { "Max" },
     directions : [1..2 -> { -1, 1 }],
     Overgrown : SUBSET (1..2),
     picks : [1..(Num \div 100) -> { p \in PerturbationPicks : p.RandomIndex < Num }]]

DiversityInit ==
    /\ grid = ARCGrid(0, 0)
    /\ fgrid = FARCGrid(0, 0)
    /\ before = ARCGrid(0, 0)
    /\ call = NoCall
    /\ ret = FARCGrid(0, 0)
    /\ SolverIdle
    /\ task = FARCTask /\ foundRules = <<>> /\ candidates = <<>> /\ clusters = <<>>
    /\ run = IdleRun /\ twin = IdleRun
    /\ galaxy = NoGalaxy
    /\ statics = NoStatics
    /\ \E Neurons \in DiversityNeurons, Num \in DiversityNums :
         nebulae = << [Neurons |-> Neurons, Num |-> Num] >>

\* Diversity.UpdateSystemDynamics(Neurons, DeltaTime, IterationCount), and
\* the caller's IterationCount++
FDiversityController_UpdateSystemDynamics ==
    /\ statics.IterationCount < MaxFrames
    /\ \E draws \in DynamicsDraws(nebulae[1].Num) :
         LET after == UpdateSystemDynamics(nebulae[1].Neurons, statics.SystemTemperature,
                                           FrameDeltaTime, statics.IterationCount, draws)
         IN  /\ nebulae' = [nebulae EXCEPT ![1].Neurons = after.Neurons]
             /\ statics' = [SystemTemperature |-> after.SystemTemperature,
                            IterationCount |-> statics.IterationCount + 1]
    /\ call' = [NoCall EXCEPT !.op = "UpdateSystemDynamics", !.kind = "FDiversityController"]
    /\ UNCHANGED <<gridVars, ret, solverVars, task, foundRules, candidates, clusters,
                   runVars, galaxy>>

DiversityNext == FDiversityController_UpdateSystemDynamics

SpecDiversity == DiversityInit /\ [][DiversityNext]_vars

\* C12: after every call of UpdateSystemDynamics every neuron's luminosity is
\* inside the clamp bounds [0.1, 100] and every neuron's speed is inside a
\* fixed finite bound.
C12_LuminosityAndSpeedBounded ==
    call.op = "UpdateSystemDynamics" =>
        \A i \in 1..Len(nebulae[1].Neurons) :
            /\ nebulae[1].Neurons[i].Luminosity >= MinLuminosity
            /\ nebulae[1].Neurons[i].Luminosity <= MaxLuminosity
            /\ Abs(nebulae[1].Neurons[i].Velocity) <= SpeedLimit * 10000

\* the luminosity alone leaves the clamp bounds, below and above
C12_LuminosityBounded ==
    call.op = "UpdateSystemDynamics" =>
        \A i \in 1..Len(nebulae[1].Neurons) :
            /\ nebulae[1].Neurons[i].Luminosity >= MinLuminosity
            /\ nebulae[1].Neurons[i].Luminosity <= MaxLuminosity

\* the speed alone passes the limit
C12_SpeedBounded ==
    call.op = "UpdateSystemDynamics" =>
        \A i \in 1..Len(nebulae[1].Neurons) :
            Abs(nebulae[1].Neurons[i].Velocity) <= SpeedLimit * 10000

\* what does hold: the temperature stays in [10, 1000] and never rises
C12_TemperatureBounded ==
    /\ statics.SystemTemperature >= MinTemperature
    /\ statics.SystemTemperature <= SystemTemperature

\* ------------------------------------------------------------------------
\* Galaxy evolution: one NEBULAEmergentGalaxy whose frames are evolved, a
\* step per particle of a phase (src/unnamed/part_001)
\* ------------------------------------------------------------------------
\* the two bodies of the energy test: unit masses 2 apart, closing at unit speed
TwoBodies == << Neuron(0, 10000, 10000, 27000000), Neuron(20000, -10000, 10000, 27000000) >>

\* one heavy, hot neuron
HeavyNeuron == Neuron(0, 0, 25000, 50000000)

GalaxyPool ==
    { NEBULAEmergentGalaxy(<<>>, <<>>),
      NEBULAEmergentGalaxy(<<>>, << Photon >>),
      NEBULAEmergentGalaxy(TwoBodies, <<>>),
      NEBULAEmergentGalaxy(TwoBodies, << EmittedPhoton(TwoBodies[1], 0) >>),
      NEBULAEmergentGalaxy(<< HeavyNeuron >>,
                           << EmittedPhoton(HeavyNeuron, 1), EmittedPhoton(HeavyNeuron, -1) >>),
      NEBULAEmergentGalaxy(<< HeavyNeuron >>,
                           << EmittedPhoton(HeavyNeuron, 1), EmittedPhoton(HeavyNeuron, -1),
                              EmittedPhoton(HeavyNeuron, 0) >>) }

\* the frame lengths: 0.01 and the 0.016 of main
DeltaTimes == { 100, 160 }

\* the values of uniform_dist(rng) drawn in updateStellarEvolution
StellarDraws == { 0, 9999 }

GalaxyInit ==
    /\ grid = ARCGrid(0, 0)
    /\ fgrid = FARCGrid(0, 0)
    /\ before = ARCGrid(0, 0)
    /\ call = NoCall
    /\ ret = FARCGrid(0, 0)
    /\ SolverIdle
    /\ task = FARCTask /\ foundRules = <<>> /\ candidates = <<>> /\ clusters = <<>>
    /\ run = IdleRun /\ twin = IdleRun
    /\ nebulae = <<>> /\ statics = NoStatics
    /\ galaxy \in GalaxyPool

NotGalaxy ==
    <<gridVars, ret, solverVars, task, foundRules, candidates, clusters, runVars,
      nebulae, statics>>

\* the galaxy when a phase of evolveFrame returns and the next call starts
Entered(g, phase) ==
    [g EXCEPT !.pc = phase,
              !.i = 0,
              !.log = IF phase = "idle" THEN @ ELSE Append(@, phase),
              !.frames = IF phase = "idle" THEN @ + 1 ELSE @]

\* evolveFrame(deltaTime) up to its first call
evolveFrame ==
    /\ galaxy.pc = "idle"
    /\ galaxy.frames < MaxFrames
    /\ \E deltaTime \in DeltaTimes :
         galaxy' = Entered([galaxy EXCEPT !.simulationTime = @ + deltaTime,
                                          !.deltaTime = deltaTime,
                                          !.log = <<>>,
                                          !.pulls = NoPulls(galaxy.neurons),
                                          !.done = [phase \in DOMAIN @ |-> 0]],
                           PhaseOrder[1])
    /\ call' = [NoCall EXCEPT !.op = "evolveFrame", !.kind = "NEBULAEmergentGalaxy"]
    /\ UNCHANGED NotGalaxy

\* updateNeuronDynamics: one pass of its loop, or its return
updateNeuronDynamics ==
    /\ galaxy.pc = "updateNeuronDynamics"
    /\ IF galaxy.i < Len(galaxy.neurons)
       THEN \E samples \in [1..Min(100, Len(galaxy.neurons)) -> 0..(Len(galaxy.neurons) - 1)] :
              galaxy' = [galaxy EXCEPT !.neurons = NeuronDynamics(@, galaxy.i, galaxy.deltaTime, samples),
                                       !.pulls[galaxy.i + 1] = Pulls(galaxy.neurons, galaxy.i, samples),
                                       !.i = @ + 1,
                                       !.done[galaxy.pc] = @ + 1]
       ELSE galaxy' = Entered(galaxy, NextPhase(galaxy.pc))
    /\ call' = [NoCall EXCEPT !.op = "updateNeuronDynamics", !.kind = "NEBULAEmergentGalaxy"]
    /\ UNCHANGED NotGalaxy

\* updatePhotonPropagation: one pass of its first loop, or the regeneration
\* of photons and its return
updatePhotonPropagation ==
    /\ galaxy.pc = "updatePhotonPropagation"
    /\ IF galaxy.i < Len(galaxy.photons)
       THEN galaxy' = [galaxy EXCEPT !.photons = PhotonPropagation(@, galaxy.neurons, galaxy.i, galaxy.deltaTime),
                                     !.i = @ + 1,
                                     !.done[galaxy.pc] = @ + 1]
       ELSE \E emit \in [1..Len(galaxy.photons) -> BOOLEAN],
               source \in [1..Len(galaxy.photons) -> 0..1] :
              galaxy' = Entered([galaxy EXCEPT !.photons = Regenerated(@, galaxy.neurons, galaxy.numPhotons, emit, source)],
                                NextPhase(galaxy.pc))
    /\ call' = [NoCall EXCEPT !.op = "updatePhotonPropagation", !.kind = "NEBULAEmergentGalaxy"]
    /\ UNCHANGED NotGalaxy

\* updateNeuralConnections: one pass of its outer loop, or its return
updateNeuralConnections ==
    /\ galaxy.pc = "updateNeuralConnections"
    /\ IF galaxy.i < Len(galaxy.neurons)
       THEN galaxy' = [galaxy EXCEPT !.neurons = NeuralConnections(@, galaxy.i),
                                     !.i = @ + 1,
                                     !.done[galaxy.pc] = @ + 1]
       ELSE galaxy' = Entered(galaxy, NextPhase(galaxy.pc))
    /\ call' = [NoCall EXCEPT !.op = "updateNeuralConnections", !.kind = "NEBULAEmergentGalaxy"]
    /\ UNCHANGED NotGalaxy

\* updateStellarEvolution: one pass of its loop, or its return
updateStellarEvolution ==
    /\ galaxy.pc = "updateStellarEvolution"
    /\ IF galaxy.i < Len(galaxy.neurons)
       THEN \E u \in StellarDraws :
              galaxy' = [galaxy EXCEPT !.neurons = StellarEvolution(@, galaxy.i, galaxy.deltaTime, u),
                                       !.i = @ + 1,
                                       !.done[galaxy.pc] = @ + 1]
       ELSE galaxy' = Entered(galaxy, NextPhase(galaxy.pc))
    /\ call' = [NoCall EXCEPT !.op = "updateStellarEvolution", !.kind = "NEBULAEmergentGalaxy"]
    /\ UNCHANGED NotGalaxy

\* detectEmergentPatterns, whole: its loops write locals only, and
\* evolveFrame returns after it
detectEmergentPatterns_Call ==
    /\ galaxy.pc = "detectEmergentPatterns"
    /\ galaxy' = Entered([galaxy EXCEPT !.temperature = detectEmergentPatterns(galaxy.neurons),
                                        !.done[galaxy.pc] = Len(galaxy.neurons)],
                         NextPhase(galaxy.pc))
    /\ call' = [NoCall EXCEPT !.op = "detectEmergentPatterns", !.kind = "NEBULAEmergentGalaxy"]
    /\ UNCHANGED NotGalaxy

GalaxyNext ==
    \/ evolveFrame
    \/ updateNeuronDynamics
    \/ updatePhotonPropagation
    \/ updateNeuralConnections
    \/ updateStellarEvolution
    \/ detectEmergentPatterns_Call

SpecGalaxy == GalaxyInit /\ [][GalaxyNext]_vars

\* a galaxy built with zero neurons
EmptyGalaxy == galaxy.pc # "none" /\ galaxy.numNeurons = 0 /\ galaxy.neurons = <<>>

\* C14: in a galaxy with zero neurons, every frame leaves all stored values
\* but the simulation clock as the constructor set them, none of them
\* undefined: no neuron appears, every photon stays as constructed, and the
\* galaxy temperature stays the number 2700.
C14_EmptyGalaxyFrameIsNoOp ==
    EmptyGalaxy =>
        /\ galaxy.neurons = <<>>
        /\ \A k \in 1..Len(galaxy.photons) : galaxy.photons[k] = Photon
        /\ ~galaxy.temperature.nan
        /\ galaxy.temperature = Number(27000000)

\* C14, the part that holds: with zero neurons the particle arrays are never
\* changed, and the regeneration loop, the only place that takes
\* rng() % neurons.size(), is never entered.
C14_EmptyGalaxyParticlesKept ==
    EmptyGalaxy =>
        /\ galaxy.neurons = <<>>
        /\ \A k \in 1..Len(galaxy.photons) : galaxy.photons[k] = Photon
        /\ Cardinality({ k \in 1..Len(galaxy.photons) : galaxy.photons[k].active })
              >= galaxy.numPhotons \div 2

\* C14: the state after a frame of a galaxy with zero neurons and zero
\* photons, the galaxy temperature read as 0.0f / 0
C14_EmptyGalaxyTemperatureNaN ==
    /\ EmptyGalaxy /\ galaxy.numPhotons = 0
    /\ galaxy.pc = "idle" /\ galaxy.frames = 1
    /\ galaxy.temperature.nan

\* the particles a phase of evolveFrame goes over
ParticlesOf(phase) ==
    IF phase = "updatePhotonPropagation" THEN Len(galaxy.photons) ELSE Len(galaxy.neurons)

\* C20: within an evolveFrame call the phases started so far are the first
\* ones of the fixed order (gravitational update, photon propagation,
\* connectivity update, stellar evolution, pattern bookkeeping), each started
\* once; every phase before the running one has gone over all its particles,
\* no later phase has touched any, and a call that has returned has run all
\* five.
C20_PhasesOnceInOrder ==
    galaxy.pc # "none" =>
        LET started == Len(galaxy.log)
        IN  /\ started <= 5
            /\ \A k \in 1..started : galaxy.log[k] = PhaseOrder[k]
            /\ galaxy.pc # "idle" =>
                  /\ started >= 1
                  /\ galaxy.pc = galaxy.log[started]
                  /\ galaxy.done[galaxy.pc] = galaxy.i
                  /\ galaxy.i <= ParticlesOf(galaxy.pc)
            /\ (galaxy.pc = "idle" /\ galaxy.frames > 0) => started = 5
            /\ \A k \in 1..5 :
                  /\ (k < started \/ (k = started /\ galaxy.pc = "idle"))
                        => galaxy.done[PhaseOrder[k]] = ParticlesOf(PhaseOrder[k])
                  /\ k > started => galaxy.done[PhaseOrder[k]] = 0

\* C20: a second frame of the two bodies and one photon has returned, all
\* five phases run over the particles
C20_Witness ==
    /\ galaxy.pc = "idle" /\ galaxy.frames = 2
    /\ Len(galaxy.neurons) = 2 /\ Len(galaxy.photons) = 1
    /\ galaxy.log = PhaseOrder
    /\ \A k \in 1..5 : galaxy.done[PhaseOrder[k]] = ParticlesOf(PhaseOrder[k])

\* the two bodies in the first frame of length 0.01, gravity applied to both
TwoBodiesStepped ==
    /\ galaxy.pc # "none" /\ galaxy.frames = 0 /\ galaxy.deltaTime = 100
    /\ Len(galaxy.neurons) = 2
    /\ galaxy.done["updateNeuronDynamics"] = 2
    /\ galaxy.neurons[1].mass = 10000 /\ galaxy.neurons[2].mass = 10000
    /\ galaxy.neurons[1].age = 100 /\ galaxy.neurons[2].age = 100

\* C16: two unit masses 2 apart that approach each other at unit speed,
\* advanced by one step of deltaTime 0.01 with the force G * m1 * m2 / d^2,
\* the velocity of a body updated before its position: the total energy
\* after the step differs from the energy before it by less than 1%.
C16_EnergyWithinOnePercent ==
    TwoBodiesStepped =>
        EnergyErrorBelowTolerance(TotalEnergy(TwoBodies[1], TwoBodies[2]),
                                  TotalEnergy(galaxy.neurons[1], galaxy.neurons[2]))

\* C16: the step in which each body was pulled once by the other, each
\* velocity changed by 0.0025 G before the positions moved by 0.01
C16_Witness ==
    /\ TwoBodiesStepped
    /\ galaxy.neurons[1].velocity = [c |-> 10000, g |-> 25]
    /\ galaxy.neurons[2].velocity.c = -10000 /\ galaxy.neurons[2].velocity.g < 0
    /\ galaxy.neurons[1].position.c = 100
    /\ galaxy.neurons[2].position.c = 19900
    /\ EnergyErrorBelowTolerance(TotalEnergy(TwoBodies[1], TwoBodies[2]),
                                 TotalEnergy(galaxy.neurons[1], galaxy.neurons[2]))

\* neuron i has had its gravitational update in the running or last frame
Pulled(i) ==
    /\ galaxy.pc # "none"
    /\ i < Len(galaxy.neurons)
    /\ i < galaxy.done["updateNeuronDynamics"]

\* C22: in a galaxy of at most 100 neurons the force accumulated on neuron i
\* in a frame has one term for every other neuron and none for i itself.
C22_EveryOtherNeuronOnce ==
    \A i \in 0..(Len(galaxy.neurons) - 1) :
        (Pulled(i) /\ Len(galaxy.neurons) <= 100) =>
            \A idx \in 0..(Len(galaxy.neurons) - 1) :
                galaxy.pulls[i + 1][idx] = IF idx = i THEN 0 ELSE 1

\* C22, the part that holds: neuron i never pulls at itself, and the force
\* has at most min(100, population) terms.
C22_NeverItself ==
    \A i \in 0..(Len(galaxy.neurons) - 1) :
        Pulled(i) =>
            /\ galaxy.pulls[i + 1][i] = 0
            /\ SumSeq([k \in 1..Len(galaxy.neurons) |-> galaxy.pulls[i + 1][k - 1]],
                      Len(galaxy.neurons)) <= Min(100, Len(galaxy.neurons))

\* C22: the first of the two bodies was updated with the second counted
\* twice, its velocity changed by twice 0.0025 G
C22_OtherCountedTwice ==
    /\ Pulled(0) /\ galaxy.frames = 0 /\ galaxy.deltaTime = 100
    /\ Len(galaxy.neurons) = 2
    /\ galaxy.pulls[1][1] = 2
    /\ galaxy.neurons[1].velocity.g = 50

\* C22: the first of the two bodies was updated with no force at all, both
\* draws having come to the body itself
C22_OtherNeverCounted ==
    /\ Pulled(0) /\ galaxy.frames = 0
    /\ Len(galaxy.neurons) = 2
    /\ galaxy.pulls[1][1] = 0
    /\ galaxy.neurons[1].velocity.g = 0

\* the number of active photons
ActivePhotons(photons) == Cardinality({ k \in 1..Len(photons) : photons[k].active })

\* the step of updatePhotonPropagation that follows its propagation loop
RegenerationStep ==
    galaxy.pc = "updatePhotonPropagation" /\ galaxy.i = Len(galaxy.photons)

\* C23: a photon goes from inactive to active only in the regeneration step
\* of a frame in which, after propagation, fewer than numPhotons / 2 (rounded
\* down) photons are active, and then with the position and the luminosity
\* of one neuron of the galaxy; that step changes no photon that was active;
\* the photon array keeps its configured length, so no more than numPhotons
\* photons are ever active.
C23_RegenerationBelowHalf ==
    [][ galaxy.pc # "none" =>
          /\ Len(galaxy'.photons) = galaxy.numPhotons
          /\ galaxy'.numPhotons = galaxy.numPhotons
          /\ ActivePhotons(galaxy'.photons) <= galaxy.numPhotons
          /\ \A k \in 1..Len(galaxy.photons) :
                (~galaxy.photons[k].active /\ galaxy'.photons[k].active) =>
                    /\ RegenerationStep
                    /\ ActivePhotons(galaxy.photons) < galaxy.numPhotons \div 2
                    /\ \E n \in 1..Len(galaxy.neurons) :
                          /\ galaxy'.photons[k].position = galaxy.neurons[n].position.c
                          /\ galaxy'.photons[k].intensity = galaxy.neurons[n].luminosity
          /\ RegenerationStep =>
                \A k \in 1..Len(galaxy.photons) :
                    galaxy.photons[k].active => galaxy'.photons[k] = galaxy.photons[k] ]_vars

\* C23: both photons of a galaxy of two have left it and were reactivated
\* at the neuron
C23_Witness ==
    /\ galaxy.pc = "updateNeuralConnections"
    /\ galaxy.numPhotons = 2 /\ Len(galaxy.photons) = 2
    /\ \A k \in 1..2 :
          /\ galaxy.photons[k].active
          /\ galaxy.photons[k].direction # 0
          /\ galaxy.photons[k].position = galaxy.neurons[1].position.c
    /\ galaxy.frames = 1

\* C23: of three photons one is active after propagation, which is not
\* less than 3 / 2 = 1: the two that have left stay inactive
C23_WitnessHalfRoundedDown ==
    /\ galaxy.pc = "updateNeuralConnections"
    /\ galaxy.numPhotons = 3
    /\ ActivePhotons(galaxy.photons) = 1
    /\ ~galaxy.photons[1].active /\ ~galaxy.photons[2].active

\* C30: when evolveFrame returns, the luminosity of every neuron is its
\* mass times its temperature over 5778, of the mass and the temperature it
\* has then: the value the connectivity update smoothed is overwritten by
\* the stellar evolution of the same frame.
C30_LuminosityFromMassAndTemperature ==
    (galaxy.pc = "idle" /\ galaxy.frames > 0) =>
        \A k \in 1..Len(galaxy.neurons) :
            galaxy.neurons[k].luminosity
              = Luminosity(galaxy.neurons[k].mass, galaxy.neurons[k].temperature)

\* C30: a frame of two neurons has returned in which each neuron was
\* connected to the other and activated by it
C30_Witness ==
    /\ galaxy.pc = "idle" /\ galaxy.frames = 1
    /\ Len(galaxy.neurons) = 2
    /\ \A k \in 1..2 :
          /\ galaxy.neurons[k].connections = 1
          /\ galaxy.neurons[k].activation > 0
          /\ galaxy.neurons[k].luminosity > 0
    /\ galaxy.log = PhaseOrder

\* C30: the connectivity update has run on every neuron and left
\* luminosities that are not mass times temperature over 5778
C30_WitnessSmoothed ==
    /\ galaxy.pc = "updateStellarEvolution" /\ galaxy.i = 0
    /\ Len(galaxy.neurons) = 2
    /\ \A k \in 1..2 :
          galaxy.neurons[k].luminosity
            # Luminosity(galaxy.neurons[k].mass, galaxy.neurons[k].temperature)

\* ------------------------------------------------------------------------
\* Frames of ANebulaEmergent: two instances whose EvolveFrame is called, each
\* call in two steps, the oracle step and the diversity step
\* (src/src/DiversityMaintenance.cpp)
\* ------------------------------------------------------------------------
\* a cluster as IdentifyActiveClusters returns it, with its member neurons
ActiveCluster(Cluster, NeuronIDs) ==
    [Velocity |-> Cluster.Velocity, AngularVelocityZ |-> Cluster.AngularVelocityZ,
     SpectralMap |-> Cluster.SpectralMap, Coherence |-> Cluster.Coherence,
     NeuronIDs |-> NeuronIDs]

\* IdentifyActiveClusters is not part of the sources at hand: no cluster, the
\* first neuron alone moving one cell per frame, or both neurons moving 11
NebulaClusterLists ==
    { <<>>,
      << ActiveCluster(FNeuronCluster(<<1, 0>>, 0, <<>>, Ratio(1, 1)), <<0>>) >>,
      << ActiveCluster(FNeuronCluster(<<11, 0>>, 0, <<>>, Ratio(1, 1)), <<0, 1>>) >> }

\* CurrentTrainingExamples: none, or one that moves a cell one step right
NebulaTrainingLists ==
    { <<>>,
      << FARCExample(FGrid(<< <<1, 0, 0>> >>), FGrid(<< <<0, 1, 0>> >>)) >> }

\* a bright neuron at the origin and a dim one out of its reach
NebulaNeurons == << FNeuronState(0, 0, 600, 100), FNeuronState(1000, 0, 10, 100) >>

\* an ANebulaEmergent after construction
ANebulaEmergent(Num, CurrentTrainingExamples) ==
    [Neurons |-> NebulaNeurons,
     Num |-> Num,
     CurrentTrainingExamples |-> CurrentTrainingExamples,
     pc |-> "idle",
     Clusters |-> <<>>,
     entry |-> NebulaNeurons,
     frames |-> 0,
     seen |-> NoStatics,
     kicked |-> FALSE]

\* the draws of one diversity step taken in this specification
NebulaDraws(Num) ==
    [thermal : { [i \in 1..2 |-> <<1, 1>>] },
     ClampOfNaN : { "NaN", "Max" },
     directions : { [i \in 1..2 |-> 1] },
     Overgrown : { {}, { 1 } },
     picks : [1..(Num \div 100) -> { p \in PerturbationPicks : p.Spike = 1 }]]

NebulaInit ==
    /\ grid = ARCGrid(0, 0)
    /\ fgrid = FARCGrid(0, 0)
    /\ before = ARCGrid(0, 0)
    /\ call = NoCall
    /\ ret = FARCGrid(0, 0)
    /\ SolverIdle
    /\ task = FARCTask /\ foundRules = <<>> /\ candidates = <<>> /\ clusters = <<>>
    /\ run = IdleRun /\ twin = IdleRun
    /\ galaxy = NoGalaxy
    /\ statics = NoStatics
    /\ \E Num \in DiversityNums, first \in NebulaTrainingLists, second \in NebulaTrainingLists :
         nebulae = << ANebulaEmergent(Num, first), ANebulaEmergent(Num, second) >>

\* the EvolveFrame calls made so far, on any instance
FramesStarted ==
    statics.IterationCount + Cardinality({ m \in 1..Len(nebulae) : nebulae[m].pc = "oracle" })

NotNebula ==
    <<gridVars, ret, solverVars, task, foundRules, candidates, clusters, runVars, galaxy>>

\* EvolveFrame of instance n up to the end of its first step: every active
\* cluster is scored and the luminosity and energy of its members updated
ANebulaEmergent_EvolveFrame_Oracle(n) ==
    /\ nebulae[n].pc = "idle"
    /\ FramesStarted < MaxFrames
    /\ \E Clusters \in NebulaClusterLists :
         nebulae' = [nebulae EXCEPT
            ![n].pc = "oracle",
            ![n].Clusters = Clusters,
            ![n].entry = nebulae[n].Neurons,
            ![n].Neurons = OracleStep(@, Clusters, nebulae[n].CurrentTrainingExamples,
                                      FrameDeltaTime, 1)]
    /\ call' = [NoCall EXCEPT !.op = "EvolveFrame", !.kind = "ANebulaEmergent", !.n = n]
    /\ UNCHANGED statics
    /\ UNCHANGED NotNebula

\* the rest of EvolveFrame of instance n: the diversity controller and the
\* frame counter, which are the function's static locals
ANebulaEmergent_EvolveFrame_Diversity(n) ==
    /\ nebulae[n].pc = "oracle"
    /\ \E draws \in NebulaDraws(nebulae[n].Num) :
         LET after == UpdateSystemDynamics(nebulae[n].Neurons, statics.SystemTemperature,
                                           FrameDeltaTime, statics.IterationCount, draws)
         IN  /\ nebulae' = [nebulae EXCEPT
                    ![n].pc = "idle",
                    ![n].Neurons = after.Neurons,
                    ![n].frames = @ + 1,
                    ![n].seen = statics,
                    ![n].kicked = statics.IterationCount % 100 = 0]
             /\ statics' = [SystemTemperature |-> after.SystemTemperature,
                            IterationCount |-> statics.IterationCount + 1]
    /\ call' = [NoCall EXCEPT !.op = "UpdateSystemDynamics", !.kind = "ANebulaEmergent", !.n = n]
    /\ UNCHANGED NotNebula

NebulaNext ==
    \E n \in 1..2 :
        \/ ANebulaEmergent_EvolveFrame_Oracle(n)
        \/ ANebulaEmergent_EvolveFrame_Diversity(n)

SpecNebula == NebulaInit /\ [][NebulaNext]_vars

\* instance n has just run the oracle step with clusters and no training example
OracleStepWithoutExamples(n) ==
    /\ nebulae[n].pc = "oracle"
    /\ nebulae[n].CurrentTrainingExamples = <<>>
    /\ nebulae[n].Clusters # <<>>

\* C15: with an empty training list EvaluatePatternValidity returns a score
\* that is a number, and the oracle step of EvolveFrame leaves the luminosity
\* and the energy of every cluster member as they were.
C15_NoExamplesOracleStepKeeps ==
    \A n \in 1..Len(nebulae) :
        OracleStepWithoutExamples(n) =>
            \A k \in 1..Len(nebulae[n].Clusters) :
                /\ ~IsNaN(EvaluatePatternValidity(nebulae[n].Clusters[k],
                                                  nebulae[n].CurrentTrainingExamples))
                /\ \A m \in 1..Len(nebulae[n].Clusters[k].NeuronIDs) :
                      LET id == nebulae[n].Clusters[k].NeuronIDs[m] + 1
                      IN  /\ nebulae[n].Neurons[id].NaN = {}
                          /\ nebulae[n].Neurons[id].Luminosity = nebulae[n].entry[id].Luminosity
                          /\ nebulae[n].Neurons[id].Energy = nebulae[n].entry[id].Energy

\* C15, the part that holds: the neurons that belong to no cluster are left
\* alone by the oracle step.
C15_OthersKept ==
    \A n \in 1..Len(nebulae) :
        nebulae[n].pc = "oracle" =>
            \A id \in 1..Len(nebulae[n].Neurons) :
                (\A k \in 1..Len(nebulae[n].Clusters) :
                    \A m \in 1..Len(nebulae[n].Clusters[k].NeuronIDs) :
                        nebulae[n].Clusters[k].NeuronIDs[m] + 1 # id)
                => nebulae[n].Neurons[id] = nebulae[n].entry[id]

\* C15: the state after the oracle step of the first frame with no training
\* example and the first neuron in a cluster: the score is 0.0f / 0 and the
\* neuron's luminosity and energy are no numbers
C15_OracleStepNaN ==
    /\ OracleStepWithoutExamples(1)
    /\ nebulae[1].frames = 0
    /\ IsNaN(EvaluatePatternValidity(nebulae[1].Clusters[1], <<>>))
    /\ nebulae[1].Neurons[1].NaN = { "Luminosity", "Energy" }
    /\ nebulae[1].entry[1].NaN = {}

\* SystemTemperature after k calls of UpdateSystemDynamics on one controller
RECURSIVE Cooled(_)
Cooled(k) ==
    IF k = 0 THEN SystemTemperature
    ELSE Max((Cooled(k - 1) * CoolingRate) \div 1000, MinTemperature)

\* C17: the temperature, the iteration count and the perturbation schedule
\* that a frame of an instance works with are that instance's own: its
\* first frame sees temperature 1000 and iteration 0 and is a perturbation
\* frame, and its k-th frame sees what its own k - 1 earlier frames left,
\* whatever frames the other instance has run.
C17_InstanceOwnsDynamics ==
    \A n \in 1..Len(nebulae) :
        nebulae[n].frames > 0 =>
            /\ nebulae[n].seen.IterationCount = nebulae[n].frames - 1
            /\ nebulae[n].seen.SystemTemperature = Cooled(nebulae[n].frames - 1)
            /\ nebulae[n].kicked = ((nebulae[n].frames - 1) % 100 = 0)

\* C17, the part that holds: an instance whose frames are the only ones run
\* sees its own temperature and count.
C17_AloneOwnsDynamics ==
    \A n \in 1..Len(nebulae) :
        (nebulae[n].frames > 0
         /\ \A m \in 1..Len(nebulae) : m # n => (nebulae[m].frames = 0 /\ nebulae[m].pc = "idle"))
        => /\ nebulae[n].seen.IterationCount = nebulae[n].frames - 1
           /\ nebulae[n].seen.SystemTemperature = Cooled(nebulae[n].frames - 1)
           /\ nebulae[n].kicked = ((nebulae[n].frames - 1) % 100 = 0)

\* C17: the first frame of the second instance, run after one frame of the
\* first, has worked with temperature 995 and iteration 1 and was no
\* perturbation frame
C17_SecondSeesFirst ==
    /\ nebulae[1].frames = 1 /\ nebulae[2].frames = 1
    /\ nebulae[1].seen = NoStatics
    /\ nebulae[2].seen = [SystemTemperature |-> 995000, IterationCount |-> 1]
    /\ ~nebulae[2].kicked

\* ------------------------------------------------------------------------
\* Cooling: the diversity controller called frame after frame on an instance
\* without neurons, until the temperature has long reached its lower limit
\* (src/src/DiversityMaintenance.cpp)
\* ------------------------------------------------------------------------
MaxCoolingFrames == 1000 \* frames evolved

\* the draws of UpdateSystemDynamics when there is no neuron to draw for
NoDraws ==
    [thermal |-> <<>>, ClampOfNaN |-> "Max", directions |-> <<>>, Overgrown |-> {},
     picks |-> <<>>]

CoolingInit ==
    /\ grid = ARCGrid(0, 0)
    /\ fgrid = FARCGrid(0, 0)
    /\ before = ARCGrid(0, 0)
    /\ call = NoCall
    /\ ret = FARCGrid(0, 0)
    /\ SolverIdle
    /\ task = FARCTask /\ foundRules = <<>> /\ candidates = <<>> /\ clusters = <<>>
    /\ run = IdleRun /\ twin = IdleRun
    /\ galaxy = NoGalaxy
    /\ statics = NoStatics
    /\ nebulae = << [Neurons |-> <<>>, Num |-> 0] >>

\* Diversity.UpdateSystemDynamics(Neurons, DeltaTime, IterationCount) with an
\* empty Neurons, and the caller's IterationCount++
FDiversityController_CoolingFrame ==
    /\ statics.IterationCount < MaxCoolingFrames
    /\ LET after == UpdateSystemDynamics(nebulae[1].Neurons, statics.SystemTemperature,
                                         FrameDeltaTime, statics.IterationCount, NoDraws)
       IN  /\ nebulae' = [nebulae EXCEPT ![1].Neurons = after.Neurons]
           /\ statics' = [SystemTemperature |-> after.SystemTemperature,
                          IterationCount |-> statics.IterationCount + 1]
    /\ call' = [NoCall EXCEPT !.op = "UpdateSystemDynamics", !.kind = "FDiversityController"]
    /\ UNCHANGED <<gridVars, ret, solverVars, task, foundRules, candidates, clusters,
                   runVars, galaxy>>

CoolingNext == FDiversityController_CoolingFrame

SpecCooling == CoolingInit /\ [][CoolingNext]_vars

\* frames follow one another: a frame that can run does run
SpecCoolingFair == SpecCooling /\ WF_vars(CoolingNext)

\* C21: the temperature starts at 1000; in every frame it is the old
\* temperature times 0.995, or 10 when that is less: it never rises, is
\* never below 10 and so never zero, stays at 10 once there, and is at 10
\* after finitely many frames.
C21_CoolsToFloor ==
    /\ statics.IterationCount = 0 => statics.SystemTemperature = 1000000
    /\ [](statics.SystemTemperature >= MinTemperature /\ statics.SystemTemperature > 0)
    /\ [][ /\ statics'.SystemTemperature <= statics.SystemTemperature
           /\ statics'.SystemTemperature
                = Max((statics.SystemTemperature * 995) \div 1000, 10000)
           /\ statics.SystemTemperature = MinTemperature
                => statics'.SystemTemperature = MinTemperature ]_vars
    /\ <>[](statics.SystemTemperature = MinTemperature)

\* C21: the temperature has been at its lower limit for frames on end: the
\* last frame found it at 10 and left it at 10
C21_Witness ==
    /\ call.op = "UpdateSystemDynamics"
    /\ statics.IterationCount > 950
    /\ statics.SystemTemperature = MinTemperature
    /\ CoolDown(statics.SystemTemperature) = MinTemperature
    /\ CoolDown_NoFloor(statics.SystemTemperature) < MinTemperature

\* ------------------------------------------------------------------------
\* A long run of ANebulaEmergent::EvolveFrame on one instance in which
\* IdentifyActiveClusters finds no cluster: the frame is the diversity
\* controller's step and the frame counter
\* (src/src/DiversityMaintenance.cpp)
\* ------------------------------------------------------------------------
MaxLongFrames == 201 \* frames evolved

\* Neurons.Num(); the first three neurons are kept, out of one another's reach
LongNums == { 3, 100, 200 }

LongNeurons ==
    << FNeuronState(0, 0, 600, 100), FNeuronState(1000, 0, 10, 100),
       FNeuronState(2000, 0, 100, 100) >>

\* RandomIndex: one of the first three neurons or the last one; the kick at
\* the end of its range; a spike of the smallest factor or none
LongPicks(Num) ==
    { [RandomIndex |-> i, RandomKick |-> 100, Spike |-> f] : i \in { 0, 1, 2 }, f \in { 1, 2 } }
    \cup { [RandomIndex |-> Num - 1, RandomKick |-> 100, Spike |-> 1] }

LongDraws(Num) ==
    [thermal : { [i \in 1..3 |-> <<1, 1>>] },
     ClampOfNaN : { "Max" },
     directions : { [i \in 1..3 |-> 1] },
     Overgrown : { {} },
     picks : [1..(Num \div 100) -> LongPicks(Num)]]

LongInit ==
    /\ grid = ARCGrid(0, 0)
    /\ fgrid = FARCGrid(0, 0)
    /\ before = ARCGrid(0, 0)
    /\ call = NoCall
    /\ ret = FARCGrid(0, 0)
    /\ SolverIdle
    /\ task = FARCTask /\ foundRules = <<>> /\ candidates = <<>> /\ clusters = <<>>
    /\ run = IdleRun /\ twin = IdleRun
    /\ galaxy = NoGalaxy
    /\ statics = NoStatics
    /\ \E Num \in LongNums :
         nebulae = << [Neurons |-> LongNeurons, Num |-> Num, Pressed |-> LongNeurons,
                       Perturbation |-> FALSE, seen |-> NoStatics] >>

\* EvolveFrame: Diversity.UpdateSystemDynamics(Neurons, DeltaTime,
\* IterationCount), then IterationCount++
ANebulaEmergent_EvolveFrame ==
    /\ statics.IterationCount < MaxLongFrames
    /\ \E draws \in LongDraws(nebulae[1].Num) :
         LET after == UpdateSystemDynamics(nebulae[1].Neurons, statics.SystemTemperature,
                                           FrameDeltaTime, statics.IterationCount, draws)
         IN  /\ nebulae' = [nebulae EXCEPT
                    ![1].Neurons = after.Neurons,
                    ![1].Pressed = after.Pressed,
                    ![1].Perturbation = after.Perturbation,
                    ![1].seen = statics]
             /\ statics' = [SystemTemperature |-> after.SystemTemperature,
                            IterationCount |-> statics.IterationCount + 1]
    /\ call' = [NoCall EXCEPT !.op = "EvolveFrame", !.kind = "ANebulaEmergent", !.n = 1]
    /\ UNCHANGED <<gridVars, ret, solverVars, task, foundRules, candidates, clusters,
                   runVars, galaxy>>

LongNext == ANebulaEmergent_EvolveFrame

SpecLong == LongInit /\ [][LongNext]_vars

\* the neurons the perturbation step of the last frame has changed
Kicked ==
    { i \in 1..Len(nebulae[1].Neurons) : nebulae[1].Neurons[i] # nebulae[1].Pressed[i] }

\* C24: a frame raises the iteration count by one; the frame has run the
\* perturbation step exactly when the count it started with is a multiple
\* of 100; that step has changed at most Neurons.Num() / 100 (rounded down)
\* neurons, and of those nothing but velocity and luminosity; a frame
\* without the step has changed no neuron after the diversity pressure.
C24_PerturbationEveryHundred ==
    call.op = "EvolveFrame" =>
        /\ statics.IterationCount = nebulae[1].seen.IterationCount + 1
        /\ nebulae[1].Perturbation <=> nebulae[1].seen.IterationCount % 100 = 0
        /\ Cardinality(Kicked) <= nebulae[1].Num \div 100
        /\ ~nebulae[1].Perturbation => Kicked = {}
        /\ \A i \in Kicked :
              nebulae[1].Neurons[i]
                = [nebulae[1].Pressed[i] EXCEPT !.Velocity = nebulae[1].Neurons[i].Velocity,
                                                !.Luminosity = nebulae[1].Neurons[i].Luminosity]

\* C24: the frame with iteration count 100 has kicked one of 100 neurons
C24_Witness ==
    /\ call.op = "EvolveFrame"
    /\ nebulae[1].seen.IterationCount = 100
    /\ nebulae[1].Num = 100
    /\ nebulae[1].Perturbation
    /\ Cardinality(Kicked) = 1

\* C24: the frame with iteration count 200 has kicked two of 200 neurons
C24_WitnessTwoKicked ==
    /\ call.op = "EvolveFrame"
    /\ nebulae[1].seen.IterationCount = 200
    /\ nebulae[1].Num = 200
    /\ Cardinality(Kicked) = 2

\* C24: the frame with iteration count 0 has run the step on fewer than
\* 100 neurons and changed none
C24_WitnessNoneKicked ==
    /\ call.op = "EvolveFrame"
    /\ nebulae[1].seen.IterationCount = 0
    /\ nebulae[1].Num = 3
    /\ nebulae[1].Perturbation
    /\ Kicked = {}

\* C24: a frame between two perturbations
C24_WitnessQuietFrame ==
    /\ call.op = "EvolveFrame"
    /\ nebulae[1].seen.IterationCount = 150
    /\ ~nebulae[1].Perturbation

\* ------------------------------------------------------------------------
\* FPatternToRuleDecoder::DecodeClusterToRule and the application of the
\* decoded rule to a grid, twice in a row (src/src/PatternDecoder.cpp)
\* ------------------------------------------------------------------------
\* FClusterPattern: speed and velocity in hundredths, Coherence and Symmetry
\* in hundredths, AngularMomentum in thousandths.  The helpers that analyse
\* the pattern are not part of the sources at hand; the pattern carries what
\* they return: RotationalCoherence, SpectralShifts (as the colour map made
\* of them), Oscillation with its OscillationPattern, BridgeFormation.
FClusterPattern(Symmetry, SymmetryAxes) ==
    [Velocity |-> [X |-> 0, Y |-> 0], Speed |-> 0, Coherence |-> 0,
     AngularMomentum |-> 0, RotationalCoherence |-> Ratio(0, 1),
     Symmetry |-> Symmetry, SymmetryAxes |-> SymmetryAxes,
     SpectralShifts |-> <<>>, SpectralCoherence |-> Ratio(0, 1),
     Oscillation |-> FALSE, OscillationPattern |-> FARCGrid(0, 0),
     BridgeFormation |-> FALSE]

DecodeClusterToRule(Pattern) ==
    IF Pattern.Speed > 10 /\ Pattern.Coherence > 80
    THEN [FTransformationRule("Translation", Ratio(Pattern.Coherence, 100)) EXCEPT
            !.Translation = [X |-> Pattern.Velocity.X, Y |-> Pattern.Velocity.Y, Den |-> 10000]]
    ELSE IF Abs(Pattern.AngularMomentum) > 10
    THEN FTransformationRule("Rotation", Pattern.RotationalCoherence)
    ELSE IF Pattern.Symmetry > 90
    THEN [FTransformationRule("Reflection", Ratio(Pattern.Symmetry, 100)) EXCEPT
            !.CustomTransform =
                IF 0 \in Pattern.SymmetryAxes
                THEN [NoTransform EXCEPT !.fn = "ReflectHorizontal"]
                ELSE IF 1 \in Pattern.SymmetryAxes
                THEN [NoTransform EXCEPT !.fn = "ReflectVertical"]
                ELSE @]
    ELSE IF Pattern.SpectralShifts # <<>>
    THEN [FTransformationRule("ColorMapping", Pattern.SpectralCoherence) EXCEPT
            !.ColorMap = Pattern.SpectralShifts]
    ELSE IF Pattern.Oscillation
    THEN [FTransformationRule("PatternFill", Ratio(7, 10)) EXCEPT
            !.CustomTransform = [NoTransform EXCEPT !.fn = "FillWithPattern",
                                                    !.Pattern = Pattern.OscillationPattern]]
    ELSE IF Pattern.BridgeFormation
    THEN [FTransformationRule("Connectivity", Ratio(75, 100)) EXCEPT
            !.CustomTransform = [NoTransform EXCEPT !.fn = "ConnectComponents"]]
    ELSE FTransformationRule("None", Ratio(0, 1))

\* patterns: symmetric about the horizontal axis, the vertical axis, both,
\* and about an axis that is neither; moving coherently; spinning; recolouring;
\* bridging; nothing of all that
DecodedPatterns ==
    { FClusterPattern(95, { 0 }), FClusterPattern(95, { 1 }), FClusterPattern(100, { 0, 1 }),
      FClusterPattern(95, { 2 }), FClusterPattern(90, { 0 }),
      [FClusterPattern(0, {}) EXCEPT !.Velocity = [X |-> 10000, Y |-> 0], !.Speed = 10000,
                                     !.Coherence = 90],
      [FClusterPattern(95, { 0 }) EXCEPT !.AngularMomentum = -20,
                                         !.RotationalCoherence = Ratio(1, 2)],
      [FClusterPattern(0, {}) EXCEPT !.SpectralShifts = (1 :> 2),
                                     !.SpectralCoherence = Ratio(1, 2)],
      [FClusterPattern(0, {}) EXCEPT !.BridgeFormation = TRUE] }

MaxDecodeDim == 2    \* width and height of the grids a decoded rule is applied to
DecodeColors == 0..2 \* colours of their cells

DecodeGrids ==
    { FGridOf(W, H, f) : <<W, H, f>> \in
        UNION { { <<W, H, f>> : f \in [{ <<X, Y>> : X \in 0..(W - 1), Y \in 0..(H - 1) }
                                         -> DecodeColors] } :
                <<W, H>> \in (1..MaxDecodeDim) \X (1..MaxDecodeDim) } }

\* grids with components to connect: three corners of a square, its four
\* corners, two cells of a row, a bar and two cells, one component alone
ConnectGrids ==
    { FGrid(<< <<2, 0, 2>>, <<0, 0, 0>>, <<2, 0, 0>> >>),
      FGrid(<< <<2, 0, 2>>, <<0, 0, 0>>, <<2, 0, 2>> >>),
      FGrid(<< <<2, 0, 2>> >>),
      FGrid(<< <<2, 2, 0>>, <<0, 0, 0>>, <<2, 0, 2>> >>),
      FGrid(<< <<0, 0, 0>>, <<0, 2, 2>>, <<0, 0, 0>> >>) }

DecodeInit ==
    /\ grid = ARCGrid(0, 0)
    /\ before = ARCGrid(0, 0)
    /\ call = NoCall
    /\ ret = FARCGrid(0, 0)
    /\ SolverIdle
    /\ EngineIdle
    /\ fgrid \in DecodeGrids \cup ConnectGrids

\* Rule = DecodeClusterToRule(Pattern)
FPatternToRuleDecoder_DecodeClusterToRule ==
    /\ call.op = "none"
    /\ \E Pattern \in DecodedPatterns :
         /\ clusters' = << Pattern >>
         /\ foundRules' = << DecodeClusterToRule(Pattern) >>
    /\ call' = [NoCall EXCEPT !.op = "DecodeClusterToRule", !.kind = "FPatternToRuleDecoder"]
    /\ UNCHANGED <<gridVars, ret, solverVars, task, candidates, runVars, simVars>>

\* Rule.Apply(Input), on the grid and then on its own result
FTransformationRule_Apply ==
    /\ \/ call.op = "DecodeClusterToRule"
       \/ call.op = "Apply" /\ call.n < 2
    /\ ret' = Apply(foundRules[1], IF call.op = "Apply" THEN ret ELSE fgrid)
    /\ call' = [NoCall EXCEPT !.op = "Apply", !.kind = "FTransformationRule", !.n = call.n + 1]
    /\ UNCHANGED <<gridVars, solverVars, engineVars>>

DecodeNext ==
    \/ FPatternToRuleDecoder_DecodeClusterToRule
    \/ FTransformationRule_Apply

SpecDecode == DecodeInit /\ [][DecodeNext]_vars

\* cell (X, Y) moved to (Width - 1 - X, Y)
MirrorLeftRight(G) ==
    FGridOf(G.Width, G.Height, [c \in FCells(G) |-> GetCell(G, G.Width - 1 - c[1], c[2])])

\* cell (X, Y) moved to (X, Height - 1 - Y)
MirrorTopBottom(G) ==
    FGridOf(G.Width, G.Height, [c \in FCells(G) |-> GetCell(G, c[1], G.Height - 1 - c[2])])

\* a Reflection rule decoded for the given symmetry axis has been applied n times
ReflectionApplied(axis, n) ==
    /\ call.op = "Apply" /\ call.n = n
    /\ foundRules[1].Type = "Reflection"
    /\ foundRules[1].CustomTransform.fn = axis

\* C25: a Reflection rule decoded for the horizontal symmetry axis turns the
\* grid into its left-right mirror, one decoded for the vertical axis into
\* its top-bottom mirror, and either applied twice gives the grid back.
C25_ReflectionAlongDecodedAxis ==
    /\ ReflectionApplied("ReflectHorizontal", 1) => ret = MirrorLeftRight(fgrid)
    /\ ReflectionApplied("ReflectVertical", 1) => ret = MirrorTopBottom(fgrid)
    /\ (call.op = "Apply" /\ call.n = 2 /\ foundRules[1].Type = "Reflection") => ret = fgrid

\* C25, the part that holds: the rule decoded for the vertical axis gives the
\* top-bottom mirror.
C25_VerticalAxisMirrors ==
    ReflectionApplied("ReflectVertical", 1) => ret = MirrorTopBottom(fgrid)

\* C25, the part that holds: a Reflection rule applied twice gives the grid
\* back.
C25_TwiceGivesBack ==
    (call.op = "Apply" /\ call.n = 2 /\ foundRules[1].Type = "Reflection") => ret = fgrid

\* C25: the rule decoded for the horizontal axis has been applied to a grid
\* whose two mirrors differ, and the result is the top-bottom mirror
C25_HorizontalRuleMirrorsTopBottom ==
    /\ ReflectionApplied("ReflectHorizontal", 1)
    /\ 0 \in clusters[1].SymmetryAxes
    /\ MirrorLeftRight(fgrid) # MirrorTopBottom(fgrid)
    /\ ret = MirrorTopBottom(fgrid)
    /\ ret # MirrorLeftRight(fgrid)

\* C25: the rule decoded for the vertical axis has been applied twice to a
\* grid that differs from its mirror
C25_VerticalRuleTwice ==
    /\ ReflectionApplied("ReflectVertical", 2)
    /\ MirrorTopBottom(fgrid) # fgrid
    /\ ret = fgrid

\* the decoded Connectivity rule has been applied once, which calls
\* ConnectComponents on the grid
ConnectivityApplied ==
    /\ call.op = "Apply" /\ call.n = 1
    /\ foundRules[1].Type = "Connectivity"

\* squared distance between the centres of two components
CentreDistance(Components, i, j) ==
    LET P1 == GetComponentCenter(Components[i])
        P2 == GetComponentCenter(Components[j])
    IN  (P1[1] - P2[1]) * (P1[1] - P2[1]) + (P1[2] - P2[2]) * (P1[2] - P2[2])

\* component j is a nearest other component of component i
NearestOther(Components, i, j) ==
    /\ i # j
    /\ \A k \in (1..Len(Components)) \ { i } :
          CentreDistance(Components, i, j) <= CentreDistance(Components, i, k)

\* the cells of the lines between a component and a nearest other component
NearestLines(G) ==
    LET Components == FindConnectedComponents(G)
    IN  UNION { IF NearestOther(Components, pr[1], pr[2])
                THEN DrawLine(GetComponentCenter(Components[pr[1]]),
                              GetComponentCenter(Components[pr[2]]))
                     \cup DrawLine(GetComponentCenter(Components[pr[2]]),
                                   GetComponentCenter(Components[pr[1]]))
                ELSE {} :
                pr \in (1..Len(Components)) \X (1..Len(Components)) }

\* the cells of the lines between any two components, in either direction
AllLines(G) ==
    LET Components == FindConnectedComponents(G)
    IN  UNION { IF pr[1] # pr[2]
                THEN DrawLine(GetComponentCenter(Components[pr[1]]),
                              GetComponentCenter(Components[pr[2]]))
                ELSE {} :
                pr \in (1..Len(Components)) \X (1..Len(Components)) }

\* C27: ConnectComponents draws lines only between a component and its
\* nearest other component: a cell that lies on no such line, and so any
\* cell that only a line between two components not nearest to each other
\* would cross, keeps its input value.
C27_OnlyNearestJoined ==
    ConnectivityApplied =>
        \A c \in FCells(fgrid) :
            c \notin NearestLines(fgrid) => GetCell(ret, c[1], c[2]) = GetCell(fgrid, c[1], c[2])

\* C27, the part that holds: a cell on no line between the centres of two
\* components keeps its input value, and the result has the input's size.
C27_OffLinesKept ==
    ConnectivityApplied =>
        /\ ret.Width = fgrid.Width /\ ret.Height = fgrid.Height
        /\ \A c \in FCells(fgrid) :
              c \notin AllLines(fgrid) => GetCell(ret, c[1], c[2]) = GetCell(fgrid, c[1], c[2])

\* C27: of three components at the corners (0,0), (2,0) and (0,2) the last
\* two are not nearest to each other, and the cell (1,1) between them, which
\* is on no line from the first, has been painted
C27_FarPairJoined ==
    /\ ConnectivityApplied
    /\ Len(FindConnectedComponents(fgrid)) = 3
    /\ ~NearestOther(FindConnectedComponents(fgrid), 2, 3)
    /\ ~NearestOther(FindConnectedComponents(fgrid), 3, 2)
    /\ <<1, 1>> \notin NearestLines(fgrid)
    /\ GetCell(fgrid, 1, 1) = 0
    /\ GetCell(ret, 1, 1) = 1

\* C27: two components, each the other's nearest, have been joined
C27_NearestPairJoined ==
    /\ ConnectivityApplied
    /\ Len(FindConnectedComponents(fgrid)) = 2
    /\ fgrid.Width = 3 /\ fgrid.Height = 1
    /\ GetCell(fgrid, 1, 0) = 0 /\ GetCell(ret, 1, 0) = 1

\* ------------------------------------------------------------------------
\* DrawLine, one iteration of its loop at a time (src/src/PatternDecoder.cpp)
\* ------------------------------------------------------------------------
MaxLineSteps == 12   \* iterations of the loop of DrawLine that are followed
LineReach == 1       \* how far outside the grid Start and End may lie

\* the locals of DrawLine before the loop
DrawLine_Locals(Start, End, Color) ==
    [X0 |-> Start[1], Y0 |-> Start[2], X1 |-> End[1], Y1 |-> End[2],
     DX |-> Abs(End[1] - Start[1]), DY |-> Abs(End[2] - Start[2]),
     SX |-> IF Start[1] < End[1] THEN 1 ELSE -1,
     SY |-> IF Start[2] < End[2] THEN 1 ELSE -1,
     Err |-> Abs(End[1] - Start[1]) - Abs(End[2] - Start[2]),
     Color |-> Color]

\* the loop body after the break test, with the error term left alone when
\* Y is stepped
DrawLine_Step_ErrKept(l) ==
    LET E2 == 2 * l.Err
        stepX == E2 > -l.DY
        stepY == E2 < l.DX
    IN  [l EXCEPT !.Err = @ - (IF stepX THEN l.DY ELSE 0),
                  !.X0 = IF stepX THEN @ + l.SX ELSE @,
                  !.Y0 = IF stepY THEN @ + l.SY ELSE @]

\* the loop body after the break test: the locals at the next iteration
DrawLine_Step(l) ==
    LET E2 == 2 * l.Err
        stepX == E2 > -l.DY
        stepY == E2 < l.DX
    IN  [l EXCEPT !.Err = @ - (IF stepX THEN l.DY ELSE 0) + (IF stepY THEN l.DX ELSE 0),
                  !.X0 = IF stepX THEN @ + l.SX ELSE @,
                  !.Y0 = IF stepY THEN @ + l.SY ELSE @]

\* the grids lines are drawn into
LineGrids ==
    { FARCGrid(3, 3), FGrid(<< <<2, 0, 2>>, <<0, 2, 0>> >>), FGrid(<< <<2>> >>) }

\* Start and End: the cells of the grid and the points around it
LinePoints(G) ==
    ((0 - LineReach)..(G.Width - 1 + LineReach)) \X ((0 - LineReach)..(G.Height - 1 + LineReach))

LineInit ==
    /\ grid = ARCGrid(0, 0)
    /\ before = FARCGrid(0, 0)
    /\ call = NoCall
    /\ ret = FARCGrid(0, 0)
    /\ SolverIdle
    /\ EngineIdle
    /\ fgrid \in LineGrids

\* DrawLine(Grid, Start, End, Color) up to its loop
DrawLine_Call ==
    /\ call.op = "none"
    /\ \E Start \in LinePoints(fgrid), End \in LinePoints(fgrid) :
         call' = [op |-> "DrawLine", kind |-> "FTransformationEngine", pc |-> "loop",
                  Start |-> Start, End |-> End, l |-> DrawLine_Locals(Start, End, 1),
                  visited |-> <<>>, x |-> 0, y |-> 0, n |-> 0, v |-> 1]
    /\ before' = fgrid
    /\ UNCHANGED <<grid, fgrid, ret, solverVars, engineVars>>

\* one iteration of while (true): SetCell, the break test, the two steps
DrawLine_Iteration ==
    /\ call.op = "DrawLine" /\ call.pc = "loop"
    /\ call.n < MaxLineSteps
    /\ fgrid' = SetCell(fgrid, call.l.X0, call.l.Y0, call.l.Color)
    /\ call' = [call EXCEPT
            !.visited = Append(@, << call.l.X0, call.l.Y0 >>),
            !.n = @ + 1,
            !.pc = IF call.l.X0 = call.l.X1 /\ call.l.Y0 = call.l.Y1 THEN "done" ELSE "loop",
            !.l = IF call.l.X0 = call.l.X1 /\ call.l.Y0 = call.l.Y1
                  THEN @ ELSE DrawLine_Step(@)]
    /\ UNCHANGED <<grid, before, ret, solverVars, engineVars>>

LineNext ==
    \/ DrawLine_Call
    \/ DrawLine_Iteration

SpecLine == LineInit /\ [][LineNext]_vars

\* the loop runs on once entered
SpecLineFair == SpecLine /\ WF_vars(DrawLine_Iteration)

\* the cells DrawLine has visited so far
Visited == { call.visited[k] : k \in DOMAIN call.visited }

\* C29: DrawLine returns for every Start and End, inside the grid or not;
\* when it returns the cell visited last is End, every visited cell of the
\* grid holds Color and every other cell holds what it held before.
C29_DrawLineTerminates ==
    /\ [](call.op = "DrawLine" => <>(call.op = "DrawLine" /\ call.pc = "done"))
    /\ []((call.op = "DrawLine" /\ call.pc = "done") =>
            /\ call.visited[Len(call.visited)] = call.End
            /\ \A c \in FCells(fgrid) :
                  GetCell(fgrid, c[1], c[2])
                    = (IF c \in Visited THEN call.l.Color ELSE GetCell(before, c[1], c[2])))
    /\ [](fgrid.Width = before.Width \/ call.op = "none")

\* C29: a line from below the grid to a point right of it has been drawn:
\* it has left the grid, come back and painted cells of it
C29_Witness ==
    /\ call.op = "DrawLine" /\ call.pc = "done"
    /\ call.Start[2] = fgrid.Height /\ call.End[1] = fgrid.Width
    /\ call.Start # call.End
    /\ Len(call.visited) >= 4
    /\ \E c \in Visited : c \in FCells(fgrid) /\ GetCell(before, c[1], c[2]) # 1
    /\ \E c \in Visited : c \notin FCells(fgrid)
    /\ \E c \in FCells(fgrid) : c \notin Visited /\ GetCell(fgrid, c[1], c[2]) = 2

\* C29: a line whose Start is its End: one cell visited
C29_WitnessPoint ==
    /\ call.op = "DrawLine" /\ call.pc = "done"
    /\ call.Start = call.End
    /\ Len(call.visited) = 1

====
